---- MODULE Spec2Model ----
(***************************************************************************)
(* A model of the XRootD client core: the per-request message handler      *)
(* (XrdClXRootDMsgHandler.cc), the in-queue (XrdClInQueue.cc) and the      *)
(* stream (XrdClStream.cc).                                                *)
(***************************************************************************)
EXTENDS Integers, Sequences, FiniteSets, TLC

(***************************************************************************)
(* Bounds of the model                                                     *)
(***************************************************************************)
MaxSID       == 2   \* stream ids 1..MaxSID per SID manager
MaxRedirects == 1   \* largest initial redirect counter
MaxTime      == 2   \* the clock runs 0..MaxTime
MaxWait      == 2   \* largest kXR_wait delay
MaxHosts     == 4   \* longest host list followed
MaxPartials  == 1   \* most kXR_oksofar frames kept per request

Handlers == {1}
Hosts    == {"M", "A"}
NoHost   == "invalid"
SIDs     == 1..MaxSID
NoErrNo  == "0"
Bodies   == {<<1>>, <<2, 3>>}

\* the expiration time given to the requests
Expiration == MaxTime

Max(a, b) == IF a > b THEN a ELSE b

RemoveAt(s, i) == SubSeq(s, 1, i - 1) \o SubSeq(s, i + 1, Len(s))

VARIABLES
  hd,          \* the fields of every XRootDMsgHandler
  outQ,        \* per channel: the out queue of sub-stream 0
  inFlight,    \* per channel: the handler in the in-flight slot, 0 if none
  inQ,         \* per channel: the handlers registered in the in-queue
  sidUsed,     \* per channel: the stream ids its SID manager has handed out
  sidTimedOut, \* per channel: the stream ids its SID manager quarantined
  waitTasks,   \* the registered WaitTasks
  now,         \* the clock
  calls,       \* per handler: how often HandleResponse ran
  result,      \* per handler: what the ResponseHandler received
  uaf,         \* per handler: it was used after it destroyed itself
  hist,        \* per handler: history of sends and redirects
  others,      \* the in-flight requests of other handlers: channel, stream id
  swept,       \* the tick has run since the clock last advanced
  stream,      \* the fields of one Stream and what its last call did
  uv,          \* UnpackVectorRead: the request, the response, the outcome
  iq,          \* one InQueue: its messages, its handlers, the last call
  env,         \* one Env: its two maps and the last call
  dl,          \* one DeepLocateHandler, its sub-requests and its threads
  sync,        \* DirList with Stat: the loop, its RequestSync, the requests
  rd,          \* one read request: its chunk, the responses, the outcome
  lb,          \* one handler's load-balancer fields over its redirects
  rq           \* one request message and its last rewrite

hvars == <<hd, outQ, inFlight, inQ, sidUsed, sidTimedOut, waitTasks, now,
           calls, result, uaf, hist, others, swept>>

vars == <<hd, outQ, inFlight, inQ, sidUsed, sidTimedOut, waitTasks, now,
          calls, result, uaf, hist, others, swept, stream, uv, iq, env, dl, sync, rd, lb, rq>>

(***************************************************************************)
(* Status                                                                  *)
(***************************************************************************)
Status(st, code) == [status |-> st, code |-> code, errNo |-> NoErrNo]

StatusOK == Status("stOK", "none")

IsOK(s) == s.status = "stOK"

IsFatal(s) == s.status = "stFatal"

RecoverableErrNos == {"kXR_FSError", "kXR_IOError", "kXR_ServerError",
                      "kXR_NotFound"}

ErrNos == {"kXR_NotFound", "kXR_NotAuthorized"}

(***************************************************************************)
(* Messages                                                                *)
(***************************************************************************)
Msg(status, attn, sid, body, errnum, host, seconds) ==
  [status |-> status, attn |-> attn, sid |-> sid, body |-> body,
   errnum |-> errnum, host |-> host, seconds |-> seconds]

NoMsg == Msg("none", FALSE, 0, <<>>, NoErrNo, NoHost, 0)

HostInfo(url) == [url |-> url, loadBalancer |-> FALSE]

ServerFlags(url) == IF url = "M" THEN {"kXR_isManager"} ELSE {"kXR_isServer"}

(***************************************************************************)
(* The world the handler code runs in, as one record: the variables plus   *)
(* the inputs of the step (sr: the state each channel's stream is in when  *)
(* a message is sent to it; pick: the stream id AllocateSID hands out) and *)
(* ok, which turns false when the step leaves the bounds of the model.     *)
(***************************************************************************)
ChanStates == {"sameSession", "otherSession", "unreachable"}

World(sr, pick) ==
  [hd |-> hd, outQ |-> outQ, inFlight |-> inFlight, inQ |-> inQ,
   sidUsed |-> sidUsed, sidTimedOut |-> sidTimedOut,
   waitTasks |-> waitTasks, now |-> now, calls |-> calls,
   result |-> result, uaf |-> uaf, hist |-> hist,
   sr |-> sr, pick |-> pick, ok |-> TRUE]

Quiet == [c \in Hosts |-> "sameSession"]

\* the stream states that make a difference to the requests there are: a
\* message bound to no session is accepted by any connected stream
SendStates ==
  [Hosts -> IF \E h \in Handlers : hd[h].sessionId # 0 THEN ChanStates
            ELSE {"otherSession", "unreachable"}]

(***************************************************************************)
(* SIDManager                                                              *)
(***************************************************************************)
FreeSIDs(w, mgr) == SIDs \ (w.sidUsed[mgr] \cup w.sidTimedOut[mgr])

AllocateSID(w, mgr) ==
  IF FreeSIDs(w, mgr) = {}
  THEN [w |-> w, st |-> Status("stError", "errNoMoreFreeSIDs"), sid |-> 0]
  ELSE [w   |-> [w EXCEPT !.sidUsed[mgr] = @ \cup {w.pick},
                          !.ok = @ /\ w.pick \in FreeSIDs(w, mgr)],
        st  |-> StatusOK,
        sid |-> w.pick]

ReleaseSID(w, mgr, sid) == [w EXCEPT !.sidUsed[mgr] = @ \ {sid}]

TimeOutSID(w, mgr, sid) == [w EXCEPT !.sidTimedOut[mgr] = @ \cup {sid}]

\* the record of the stream ids the handler h holds: it was given sid by mgr
Given(w, h, mgr, sid) ==
  [w EXCEPT !.hist[h].holds = @ \cup {[mgr |-> mgr, sid |-> sid]}]

\* the handler h has handed sid to mgr, to be released or quarantined;
\* stray records the stream ids handed over that the handler did not hold
Handed(w, h, mgr, sid) ==
  [w EXCEPT !.hist[h].holds = @ \ {[mgr |-> mgr, sid |-> sid]},
            !.hist[h].stray =
               IF [mgr |-> mgr, sid |-> sid] \in w.hist[h].holds THEN @
               ELSE @ \cup {[mgr |-> mgr, sid |-> sid]}]

(***************************************************************************)
(* Buffer                                                                  *)
(***************************************************************************)
BufAllocate(size) == [i \in 1..size |-> 0]

BufAppendAt(buf, data, offset) ==
  [i \in 1..Max(Len(buf), offset + Len(data)) |->
     IF i > offset /\ i <= offset + Len(data) THEN data[i - offset]
     ELSE buf[i]]

(***************************************************************************)
(* XRootDMsgHandler::ProcessStatus, ParseResponse, HandleResponse          *)
(***************************************************************************)
ProcessStatus(H) ==
  IF ~IsOK(H.pStatus) /\ H.pStatus.code = "errErrorResponse"
     /\ H.pResponse.status # "none"
  THEN [H.pStatus EXCEPT !.errNo = H.pResponse.errnum]
  ELSE H.pStatus

RECURSIVE PartialsLength(_, _)
PartialsLength(parts, i) ==
  IF i > Len(parts) THEN 0
  ELSE Len(parts[i].body) + PartialsLength(parts, i + 1)

RECURSIVE GluePartials_NoAdvance(_, _, _, _)
GluePartials_NoAdvance(buff, parts, i, offset) ==
  IF i > Len(parts) THEN [buff |-> buff, offset |-> offset]
  ELSE GluePartials_NoAdvance(BufAppendAt(buff, parts[i].body, offset),
                              parts, i + 1, offset)

RECURSIVE GluePartials(_, _, _, _)
GluePartials(buff, parts, i, offset) ==
  IF i > Len(parts) THEN [buff |-> buff, offset |-> offset]
  ELSE GluePartials(BufAppendAt(buff, parts[i].body, offset), parts, i + 1,
                    offset + Len(parts[i].body))

ResponseBody(H) ==
  IF H.pPartialResps = <<>> THEN H.pResponse.body
  ELSE LET length == PartialsLength(H.pPartialResps, 1)
                       + Len(H.pResponse.body)
           g      == GluePartials(BufAllocate(length), H.pPartialResps, 1, 0)
       IN  BufAppendAt(g.buff, H.pResponse.body, g.offset)

NoResponse == [kind |-> "none", body |-> <<>>, host |-> NoHost]

ParseResponse(H) ==
  IF H.pResponse.status = "kXR_redirect"
  THEN IF ~H.pRedirectAsAnswer
       THEN [st |-> StatusOK, response |-> NoResponse]
       ELSE [st |-> StatusOK,
             response |-> [kind |-> "RedirectInfo", body |-> <<>>,
                           host |-> H.pUrl]]
  ELSE IF H.pResponse.status # "kXR_ok"
  THEN [st |-> StatusOK, response |-> NoResponse]
  ELSE [st |-> StatusOK,
        response |-> [kind |-> "BinaryDataInfo", body |-> ResponseBody(H),
                      host |-> NoHost]]

SidDisposal_AlwaysRelease(status) == "ReleaseSID"

SidDisposal(status) ==
  IF ~IsOK(status) /\ status.code = "errOperationExpired"
  THEN "TimeOutSID" ELSE "ReleaseSID"

\* the end of HandleResponse: the stream id is disposed of, the callback is
\* given the status, the response and the hosts, and the handler is deleted
NotifyAndDelete(w, h, status, response) ==
  LET H  == w.hd[h]
      w0 == Handed(w, h, H.pSidMgr, H.sid)
      w1 == IF SidDisposal(status) = "TimeOutSID"
            THEN TimeOutSID(w0, H.pSidMgr, H.sid)
            ELSE ReleaseSID(w0, H.pSidMgr, H.sid)
  IN  [w1 EXCEPT !.calls[h]  = @ + 1,
                 !.result[h] = [status |-> status, response |-> response,
                                hosts |-> H.pHosts,
                                sidop |-> SidDisposal(status)],
                 !.hd[h].alive = FALSE]

\* the start of HandleResponse: the status and the response object it ends
\* with, from ProcessStatus' status st0 and ParseResponse's result parsed
ProcessAndParse(w, h, st0, parsed) ==
  NotifyAndDelete(w, h,
                  IF IsOK(st0) /\ ~IsOK(parsed.st) THEN parsed.st ELSE st0,
                  IF IsOK(st0) /\ IsOK(parsed.st) THEN parsed.response
                  ELSE NoResponse)

HandleResponse(w, h) ==
  IF ~w.hd[h].alive
  THEN [w EXCEPT !.uaf[h] = TRUE,
                 !.calls[h] = IF @ < 2 THEN @ + 1 ELSE @]
  ELSE ProcessAndParse(w, h, ProcessStatus(w.hd[h]), ParseResponse(w.hd[h]))

(***************************************************************************)
(* PostMaster::Send, down to Stream::Send: the message is bound to a       *)
(* session or not, the stream of the channel is in state w.sr[url]         *)
(***************************************************************************)
PostMasterSend(w, h, url) ==
  LET H  == w.hd[h]
      cs == w.sr[url]
      st == IF H.sessionId # 0 /\ cs # "sameSession"
            THEN Status("stError", "errInvalidSession")
            ELSE IF cs = "unreachable"
            THEN Status("stFatal", "errConnectionError")
            ELSE StatusOK
  IN  [w  |-> IF IsOK(st) THEN [w EXCEPT !.outQ[url] = Append(@, h)] ELSE w,
       st |-> st]

RetryAtServer(w, h, url) ==
  LET w1 == [w EXCEPT !.hd[h].pUrl   = url,
                      !.hd[h].pHosts = Append(@, HostInfo(url)),
                      !.hist[h].sent = Append(@, url),
                      !.hist[h].attempt = <<>>,
                      !.ok = @ /\ Len(w.hd[h].pHosts) < MaxHosts]
  IN  PostMasterSend(w1, h, url)

(***************************************************************************)
(* XRootDMsgHandler::HandleError                                           *)
(***************************************************************************)
NothingCanBeDone_TimeoutOnly(H, status, t) ==
  status.code = "errOperationExpired"

\* "Nothing can be done if: a user timeout has occured, has a non-zero
\* session id, another error occured and the validity of the message expired"
NothingCanBeDone(H, status, t) ==
  \/ status.code = "errOperationExpired"
  \/ H.sessionId # 0
  \/ t >= H.pExpiration

RECURSIVE HandleError(_, _, _)
HandleError(w, h, status) ==
  LET H == w.hd[h] IN
  IF IsOK(status) THEN w
  ELSE IF ~H.alive THEN [w EXCEPT !.uaf[h] = TRUE]
  ELSE IF status.code = "errErrorResponse"
  THEN IF H.pLoadBalancer # NoHost /\ H.pUrl # H.pLoadBalancer
          /\ status.errNo \in RecoverableErrNos
       THEN LET r  == RetryAtServer(w, h, H.pLoadBalancer)
                w2 == HandleError(r.w, h, r.st)
            IN  IF w2.hd[h].alive
                THEN [w2 EXCEPT !.hd[h].pResponse = NoMsg]
                ELSE [w2 EXCEPT !.uaf[h] = TRUE]
       ELSE HandleResponse([w EXCEPT !.hd[h].pStatus = status], h)
  ELSE IF NothingCanBeDone(H, status, w.now)
  THEN HandleResponse([w EXCEPT !.hd[h].pStatus = status], h)
  ELSE IF H.pLoadBalancer # NoHost /\ H.pLoadBalancer # H.pUrl
  THEN LET r == RetryAtServer(w, h, H.pLoadBalancer)
       IN  HandleError(r.w, h, r.st)
  ELSE IF ~IsFatal(status)
  THEN LET r == RetryAtServer(w, h, H.pUrl)
       IN  HandleError(r.w, h, r.st)
  ELSE HandleResponse([w EXCEPT !.hd[h].pStatus = status], h)

(***************************************************************************)
(* XRootDMsgHandler::RewriteRequestRedirect, RewriteRequestWait            *)
(***************************************************************************)
RewriteRequestRedirect(w, h) ==
  LET H  == w.hd[h]
      w1 == ReleaseSID(Handed(w, h, H.pSidMgr, H.sid), H.pSidMgr, H.sid)
      w2 == [w1 EXCEPT !.hd[h].pSidMgr = H.pUrl]
      a  == AllocateSID(w2, H.pUrl)
  IN  IF ~IsOK(a.st) THEN [w |-> a.w, st |-> a.st]
      ELSE [w  |-> [Given(a.w, h, H.pUrl, a.sid) EXCEPT !.hd[h].sid = a.sid],
            st |-> StatusOK]

RewriteRequestWait(w, h) == [w |-> w, st |-> StatusOK]

(***************************************************************************)
(* XRootDMsgHandler::OnIncoming: the result is the world and the action    *)
(* bits Take and RemoveHandler                                             *)
(***************************************************************************)
Action(w, take, remove) == [w |-> w, take |-> take, remove |-> remove]

Terminate(w, h, status) ==
  Action(HandleResponse([w EXCEPT !.hd[h].pStatus = status], h), TRUE, TRUE)

ReturnRedirect_Never(H) == FALSE

\* "Check if we need to return the URL as a response"
ReturnRedirect(H) == H.pRedirectAsAnswer

RedirectLimitReached_Never(H) == FALSE

RedirectLimitReached(H) == H.pRedirectCounter = 0

\* XRootDMsgHandler::SetLoadBalancer
SetLoadBalancer(H, loadBalancer) ==
  IF loadBalancer = NoHost THEN H
  ELSE [H EXCEPT !.pLoadBalancer = loadBalancer, !.pHasLoadBalancer = TRUE]

Promoted_Unasked(H, flags) ==
  /\ "kXR_isManager" \in flags
  /\ ("kXR_attrMeta" \in flags \/ H.pLoadBalancer = NoHost)

\* "Keep the info about this server if we still need to find a load
\* balancer": a meta manager supersedes, a manager is assigned only if
\* none has been
Promoted(H, flags) ==
  /\ ~H.pHasLoadBalancer
  /\ "kXR_isManager" \in flags
  /\ ("kXR_attrMeta" \in flags \/ H.pLoadBalancer = NoHost)

\* the loadBalancer flag cleared in every record, set in the last one
FlagLast(hosts) ==
  [i \in 1..Len(hosts) |-> [hosts[i] EXCEPT !.loadBalancer = (i = Len(hosts))]]

OnRedirect(w, h, msg) ==
  LET H == w.hd[h] IN
  IF RedirectLimitReached(H)
  THEN Terminate([w EXCEPT !.hist[h].redirSeen = @ + 1], h,
                 Status("stFatal", "errRedirectLimit"))
  ELSE
    LET n       == Len(H.pHosts)
        flags   == ServerFlags(H.pUrl)
        promote == Promoted(H, flags)
        hosts1  == IF promote THEN FlagLast(H.pHosts) ELSE H.pHosts
        w1      == [w EXCEPT !.hd[h].pRedirectCounter = (@ + 65535) % 65536,
                             !.hist[h].redirSeen = @ + 1,
                             !.hd[h].pHosts = hosts1,
                             !.hd[h].pLoadBalancer =
                                IF promote THEN H.pHosts[n].url ELSE @,
                             !.hd[h].pUrl = msg.host]
    IN  IF msg.host = NoHost
        THEN Terminate(w1, h, Status("stError", "errInvalidRedirectURL"))
        ELSE IF ReturnRedirect(H)
        THEN Terminate([w1 EXCEPT !.hd[h].pResponse = msg], h,
                       Status("stOK", "suXRDRedirect"))
        ELSE
          LET rw == RewriteRequestRedirect(w1, h) IN
          IF ~IsOK(rw.st) THEN Terminate(rw.w, h, rw.st)
          ELSE
            LET w2 == [rw.w EXCEPT
                         !.hd[h].pHosts = Append(@, HostInfo(msg.host)),
                         !.hist[h].redirSends = @ + 1,
                         !.ok = @ /\ Len(rw.w.hd[h].pHosts) < MaxHosts]
                r  == RetryAtServer(w2, h, msg.host)
            IN  Action(HandleError(r.w, h, r.st), TRUE, TRUE)

OnIncomingBody(w, h, msg) ==
  LET H == w.hd[h] IN
  CASE msg.status = "kXR_ok" ->
         Terminate([w EXCEPT !.hd[h].pResponse = msg,
                             !.hist[h].frames = Append(@, msg.body),
                             !.hist[h].attempt = Append(@, msg.body)],
                   h, StatusOK)
    [] msg.status = "kXR_error" ->
         Action(HandleError([w EXCEPT !.hd[h].pResponse = msg], h,
                            Status("stError", "errErrorResponse")),
                TRUE, TRUE)
    [] msg.status = "kXR_redirect" -> OnRedirect(w, h, msg)
    [] msg.status = "kXR_wait" ->
         LET rw == RewriteRequestWait(w, h) IN
         IF ~IsOK(rw.st) THEN Terminate(rw.w, h, rw.st)
         ELSE Action([rw.w EXCEPT !.waitTasks = @ \cup
                        {[handler |-> h, at |-> w.now + msg.seconds]}],
                     TRUE, TRUE)
    [] msg.status = "kXR_waitresp" -> Action(w, TRUE, FALSE)
    [] msg.status = "kXR_oksofar" ->
         Action([w EXCEPT !.hd[h].pPartialResps = Append(@, msg),
                          !.hist[h].frames = Append(@, msg.body),
                          !.hist[h].attempt = Append(@, msg.body),
                          !.ok = @ /\ Len(H.pPartialResps) < MaxPartials],
                TRUE, FALSE)
    [] OTHER -> Terminate(w, h, Status("stError", "errInvalidResponse"))

OnIncoming(w, h, msg) ==
  LET H == w.hd[h] IN
  IF ~H.alive THEN Action([w EXCEPT !.uaf[h] = TRUE], FALSE, FALSE)
  ELSE IF msg.sid # H.sid THEN Action(w, FALSE, FALSE)
  ELSE \* kXR_attn with kXR_asynresp: the embedded response is examined
       OnIncomingBody(w, h, IF msg.attn THEN [msg EXCEPT !.attn = FALSE]
                            ELSE msg)

(***************************************************************************)
(* XRootDMsgHandler::OnStreamEvent, OnStatusReady, WaitDone                *)
(***************************************************************************)
OnStreamEvent_KeepsHandler(w, h, event, streamNum, status) ==
  IF ~w.hd[h].alive THEN [w |-> [w EXCEPT !.uaf[h] = TRUE], remove |-> FALSE]
  ELSE IF event = "Ready" THEN [w |-> w, remove |-> FALSE]
  ELSE IF streamNum # 0 THEN [w |-> w, remove |-> FALSE]
  ELSE [w |-> HandleError(w, h, status), remove |-> FALSE]

OnStreamEvent(w, h, event, streamNum, status) ==
  IF ~w.hd[h].alive THEN [w |-> [w EXCEPT !.uaf[h] = TRUE], remove |-> FALSE]
  ELSE IF event = "Ready" THEN [w |-> w, remove |-> FALSE]
  ELSE IF streamNum # 0 THEN [w |-> w, remove |-> FALSE]
  ELSE [w |-> HandleError(w, h, status), remove |-> TRUE]

\* InQueue::AddMessageHandler, reached through PostMaster::Receive
AddMessageHandler(w, c, h) == [w EXCEPT !.inQ[c] = Append(@, h)]

OnStatusReady(w, h, status) ==
  IF ~w.hd[h].alive THEN [w EXCEPT !.uaf[h] = TRUE]
  ELSE IF IsOK(status) THEN AddMessageHandler(w, w.hd[h].pUrl, h)
  ELSE HandleError(w, h, status)

WaitDone(w, h) ==
  IF ~w.hd[h].alive THEN [w EXCEPT !.uaf[h] = TRUE]
  ELSE LET r == RetryAtServer(w, h, w.hd[h].pUrl)
       IN  HandleError(r.w, h, r.st)

(***************************************************************************)
(* InQueue                                                                 *)
(***************************************************************************)
RECURSIVE AddMessageLoop(_, _, _, _)

\* the loop's body after the handler at i has returned its action r
AddMessageAfter(r, c, msg, i) ==
  LET w1 == IF r.remove THEN [r.w EXCEPT !.inQ[c] = RemoveAt(@, i)]
            ELSE r.w
  IN  IF r.take THEN w1
      ELSE AddMessageLoop(w1, c, msg, IF r.remove THEN i ELSE i + 1)

AddMessageLoop(w, c, msg, i) ==
  IF i > Len(w.inQ[c]) THEN [w EXCEPT !.ok = FALSE]
  ELSE AddMessageAfter(OnIncoming(w, w.inQ[c][i], msg), c, msg, i)

AddMessage(w, c, msg) == AddMessageLoop(w, c, msg, 1)

RECURSIVE ReportStreamEventLoop(_, _, _, _, _, _)
ReportStreamEventLoop(w, c, event, streamNum, status, i) ==
  IF i > Len(w.inQ[c]) THEN w
  ELSE LET r == OnStreamEvent(w, w.inQ[c][i], event, streamNum, status)
       IN  IF r.remove
           THEN ReportStreamEventLoop(
                  [r.w EXCEPT !.inQ[c] = RemoveAt(@, i)],
                  c, event, streamNum, status, i)
           ELSE ReportStreamEventLoop(r.w, c, event, streamNum, status, i + 1)

ReportStreamEvent(w, c, event, streamNum, status) ==
  ReportStreamEventLoop(w, c, event, streamNum, status, 1)

RECURSIVE ReportTimeoutLoop(_, _, _, _)
ReportTimeoutLoop(w, c, t, i) ==
  IF i > Len(w.inQ[c]) THEN w
  ELSE LET h == w.inQ[c][i] IN
       IF w.hd[h].pExpiration <= t
       THEN LET r == OnStreamEvent(w, h, "Timeout", 0,
                                   Status("stError", "errOperationExpired"))
            IN  ReportTimeoutLoop([r.w EXCEPT !.inQ[c] = RemoveAt(@, i)],
                                  c, t, i)
       ELSE ReportTimeoutLoop(w, c, t, i + 1)

ReportTimeout(w, c, t) == ReportTimeoutLoop(w, c, t, 1)

(***************************************************************************)
(* OutQueue                                                                *)
(***************************************************************************)
RECURSIVE Report(_, _, _)
Report(w, q, status) ==
  IF q = <<>> THEN w
  ELSE Report(OnStatusReady(w, Head(q), status), Tail(q), status)

GrabExpired(w, q, t) == SelectSeq(q, LAMBDA h : w.hd[h].pExpiration <= t)

KeepUnexpired(w, q, t) == SelectSeq(q, LAMBDA h : ~(w.hd[h].pExpiration <= t))

(***************************************************************************)
(* The steps of the system around the handlers                             *)
(***************************************************************************)
\* what is kept of the record of a request: all of it, or, where only the
\* fate of the request is followed, the last record of its host list and
\* none of the urls it was sent to; neither decides a later step
KeptHosts(w, h) ==
  IF w.hist[h].recent /\ w.hd[h].pHosts # <<>>
  THEN <<w.hd[h].pHosts[Len(w.hd[h].pHosts)]>>
  ELSE w.hd[h].pHosts

KeptSent(w, h) == IF w.hist[h].recent THEN <<>> ELSE w.hist[h].sent

Commit(w) ==
  /\ w.ok
  /\ hd' = [h \in Handlers |-> [w.hd[h] EXCEPT !.pHosts = KeptHosts(w, h)]]
  /\ outQ' = w.outQ
  /\ inFlight' = w.inFlight
  /\ inQ' = w.inQ
  /\ sidUsed' = w.sidUsed
  /\ sidTimedOut' = w.sidTimedOut
  /\ waitTasks' = w.waitTasks
  /\ now' = w.now
  /\ calls' = w.calls
  /\ result' = w.result
  /\ uaf' = w.uaf
  /\ hist' = [h \in Handlers |-> [w.hist[h] EXCEPT !.sent = KeptSent(w, h)]]
  /\ UNCHANGED <<others, stream, uv, iq, env, dl, sync, rd, lb, rq>>

Registered(c) == {inQ[c][i] : i \in 1..Len(inQ[c])}

\* Stream::OnReadyToWrite on sub-stream 0 of channel c
ReadyToWrite(c) ==
  /\ outQ[c] # <<>>
  /\ inFlight[c] = 0
  /\ inFlight' = [inFlight EXCEPT ![c] = Head(outQ[c])]
  /\ outQ' = [outQ EXCEPT ![c] = Tail(@)]
  /\ UNCHANGED <<hd, inQ, sidUsed, sidTimedOut, waitTasks, now, calls,
                 result, uaf, hist, others, swept, stream, uv, iq, env, dl, sync, rd, lb, rq>>

\* Stream::OnMessageSent on sub-stream 0 of channel c
MessageSent(c) ==
  /\ inFlight[c] # 0
  /\ LET w1 == OnStatusReady(World(Quiet, 1), inFlight[c], StatusOK)
     IN  Commit([w1 EXCEPT !.inFlight[c] = 0])
  /\ UNCHANGED swept

\* Stream::OnIncoming: a response to the request of a registered handler
\* reaches the in-queue of channel c
Deliver(c, msg, sr, pick) ==
  /\ Commit(AddMessage(World(sr, pick), c, msg))
  /\ UNCHANGED swept

Incoming(c) ==
  \E h \in Registered(c) :
    LET sid == hd[h].sid IN
    \E attn \in BOOLEAN :
      \/ \E b \in Bodies :
           Deliver(c, Msg("kXR_ok", attn, sid, b, NoErrNo, NoHost, 0),
                   Quiet, 1)
      \/ /\ ~attn
         /\ \E b \in Bodies :
              Deliver(c, Msg("kXR_oksofar", attn, sid, b, NoErrNo, NoHost, 0),
                      Quiet, 1)
      \/ \E e \in ErrNos, sr \in SendStates :
           Deliver(c, Msg("kXR_error", attn, sid, <<>>, e, NoHost, 0), sr, 1)
      \/ \E t \in Hosts \cup {NoHost}, sr \in SendStates,
            pick \in SIDs :
           Deliver(c, Msg("kXR_redirect", attn, sid, <<>>, NoErrNo, t, 0),
                   sr, pick)
      \/ \E s \in 1..MaxWait :
           Deliver(c, Msg("kXR_wait", attn, sid, <<>>, NoErrNo, NoHost, s),
                   Quiet, 1)
      \/ /\ ~attn
         /\ \E st \in {"kXR_waitresp", "kXR_unknown"} :
              Deliver(c, Msg(st, attn, sid, <<>>, NoErrNo, NoHost, 0),
                      Quiet, 1)

\* Stream::OnError on sub-stream 0 of channel c
StreamError(c) ==
  \E sr \in SendStates :
    /\ sr[c] # "sameSession"
    /\ LET status == Status("stError", "errSocketError")
           q  == (IF inFlight[c] # 0 THEN <<inFlight[c]>> ELSE <<>>)
                   \o outQ[c]
           w1 == [World(sr, 1) EXCEPT !.inFlight[c] = 0, !.outQ[c] = <<>>]
           w2 == Report(w1, q, status)
       IN  Commit(ReportStreamEvent(w2, c, "Broken", 0, status))
    /\ UNCHANGED swept

\* Stream::OnFatalError on sub-stream 0 of channel c
StreamFatalError(c) ==
  \E sr \in SendStates :
    /\ sr[c] = "unreachable"
    /\ inFlight[c] = 0
    /\ LET status == Status("stFatal", "errConnectionError")
           w1 == [World(sr, 1) EXCEPT !.outQ[c] = <<>>]
           w2 == Report(w1, outQ[c], status)
       IN  Commit(ReportStreamEvent(w2, c, "FatalError", 0, status))
    /\ UNCHANGED swept

\* Stream::Tick of stream 0 of channel c at time t
StreamTick(w, c, t) ==
  LET q  == GrabExpired(w, w.outQ[c], t)
      w1 == [w EXCEPT !.outQ[c] = KeepUnexpired(w, w.outQ[c], t)]
      w2 == Report(w1, q, Status("stError", "errSocketTimeout"))
  IN  ReportTimeout(w2, c, t)

RECURSIVE TickChannels(_, _, _)
TickChannels(w, cs, t) ==
  IF cs = {} THEN w
  ELSE LET c == CHOOSE x \in cs : TRUE
       IN  TickChannels(StreamTick(w, c, t), cs \ {c}, t)

\* the tick task of the post master: every channel's stream is ticked
Tick ==
  /\ Commit(TickChannels(World(Quiet, 1), Hosts, now))
  /\ swept' = TRUE

\* WaitTask::Run
RunWaitTask(h) ==
  \E t \in waitTasks, sr \in SendStates :
    /\ t.handler = h
    /\ t.at <= now
    /\ Commit(WaitDone([World(sr, 1) EXCEPT !.waitTasks = @ \ {t}], h))
    /\ UNCHANGED swept

AdvanceTime ==
  /\ now < MaxTime
  /\ now' = now + 1
  /\ swept' = FALSE
  /\ UNCHANGED <<hd, outQ, inFlight, inQ, sidUsed, sidTimedOut, waitTasks,
                 calls, result, uaf, hist, others, stream, uv, iq, env, dl, sync, rd, lb, rq>>

(***************************************************************************)
(* Stream: one stream of a channel with its sub-streams.  A status is one  *)
(* of Disconnected, Connecting, Connected; an out queue holds items with   *)
(* the session id and the stateful flag of the message.                    *)
(***************************************************************************)
MaxSubStreams == 2
MaxSession == 2
MaxQueued == 2
MaxAddresses == 1
MaxAttempts == 3
MaxStreamTime == 1
MaxAccepted == 2

pConnectionWindow == 1
pConnectionRetry == 2
pStreamErrorWindow == 1

\* the clock of the stream starts late enough for time(0) to be past the
\* error window of a stream that never had an error
StartTime == pStreamErrorWindow

SubStreamData == [status |-> "Disconnected", outQueue |-> <<>>,
                  msgHelper |-> <<>>]

\* locks: how often the calling thread holds the stream mutex, which a
\* thread may lock again while it holds it; held: the same at the moment the
\* call last invoked a handler
NoCall == [op |-> "none", msg |-> <<>>, st |-> StatusOK, connects |-> 0,
           reports |-> <<>>, event |-> "none", oob |-> FALSE,
           locks |-> 0, held |-> 0]

\* Stream::Stream and Stream::Initialize
NewStream ==
  [pSubStreams |-> [i \in {0} |-> SubStreamData],
   pLastStreamError |-> 0, pConnectionCount |-> 0,
   pConnectionInitTime |-> 0, pSessionId |-> 0, pAddresses |-> 0,
   tasks |-> {}, time |-> StartTime, accepted |-> 0, lastCall |-> NoCall]

Size(S) == Cardinality(DOMAIN S.pSubStreams)

SubStatuses == {"Disconnected", "Connecting", "Connected"}

\* what the environment answers during one call: the addresses the host
\* resolves to (0: it does not resolve), whether Socket::Connect and
\* EnableUplink succeed, the sub-streams the transport asks for, and the
\* status read from beyond the end of pSubStreams
StreamInputs ==
  [resolve : 0..MaxAddresses, connect : BOOLEAN, uplink : BOOLEAN,
   numSub : 1..MaxSubStreams, wild : SubStatuses]

\* the answers a call reads: those of a connection attempt while sub-stream
\* 0 is not Connected, those of the uplink and of a status read while it is,
\* those of the transport and of the extra connections in OnConnect
ConnectInputs ==
  {in \in StreamInputs :
     in.uplink /\ in.numSub = 1 /\ in.wild = "Disconnected"}

UplinkInputs ==
  {in \in StreamInputs : in.resolve = 0 /\ in.connect /\ in.numSub = 1}

OnConnectInputs ==
  {in \in StreamInputs :
     in.resolve = 0 /\ in.uplink /\ in.wild = "Disconnected"}

LinkInputs(S, path) ==
  IF S.pSubStreams[0].status = "Connected"
  THEN {in \in UplinkInputs :
          path.down \in DOMAIN S.pSubStreams => in.wild = "Disconnected"}
  ELSE ConnectInputs

Call(S, op, msg) == [S EXCEPT !.lastCall = [NoCall EXCEPT !.op = op,
                                                        !.msg = msg]]

\* XrdSysMutexHelper: the constructor locks, UnLock unlocks once, the
\* destructors on the way out bring the thread back to what it held at entry
Lock(S) == [S EXCEPT !.lastCall.locks = @ + 1]

UnLock(S) == [S EXCEPT !.lastCall.locks = @ - 1]

Leave(S, atEntry) == [S EXCEPT !.lastCall.locks = atEntry]

\* a handler is invoked: OnReadyToSend, OnStatusReady, OnStreamEvent
Invoke(S) == [S EXCEPT !.lastCall.held = S.lastCall.locks]

\* AsyncSocketHandler::EnableUplink and AsyncSocketHandler::Connect
EnableUplink(in) ==
  IF in.uplink THEN StatusOK ELSE Status("stFatal", "errPollerError")

SocketConnect(S, in) ==
  [S  |-> [S EXCEPT !.lastCall.connects = @ + 1],
   st |-> IF in.connect THEN StatusOK
          ELSE Status("stError", "errConnectionError")]

\* pSubStreams[i]->status; an index beyond the vector reads anything
StatusAt(S, i, in) ==
  IF i \in DOMAIN S.pSubStreams THEN S.pSubStreams[i].status ELSE in.wild

MarkAccess(S, i) ==
  IF i \in DOMAIN S.pSubStreams THEN S ELSE [S EXCEPT !.lastCall.oob = TRUE]

WithinErrorWindow_Never(S) == FALSE

\* now-pLastStreamError < pStreamErrorWindow
WithinErrorWindow(S) == S.time - S.pLastStreamError < pStreamErrorWindow

\* Stream::EnableLink: the result is the stream, the status and the path
StreamEnableLink(S, path, in) ==
  LET sub == S.pSubStreams IN
  IF sub[0].status = "Connecting"
  THEN [S |-> S, st |-> StatusOK, path |-> path]
  ELSE IF sub[0].status = "Connected"
  THEN LET S1 == MarkAccess(S, path.down)
           p1 == IF StatusAt(S, path.down, in) # "Connected"
                 THEN [path EXCEPT !.down = 0] ELSE path
       IN  IF sub[p1.up].status = "Disconnected"
           THEN [S |-> S1, st |-> EnableUplink(in),
                 path |-> [p1 EXCEPT !.up = 0]]
           ELSE IF sub[p1.up].status = "Connected"
           THEN [S |-> S1, st |-> EnableUplink(in), path |-> p1]
           ELSE [S |-> S1, st |-> StatusOK, path |-> p1]
  ELSE IF WithinErrorWindow(S)
  THEN [S |-> S, st |-> Status("stFatal", "errConnectionError"),
        path |-> path]
  ELSE LET S1 == [S EXCEPT !.pConnectionInitTime = S.time,
                           !.pConnectionCount = @ + 1]
       IN  IF in.resolve = 0
           THEN [S |-> [S1 EXCEPT !.pLastStreamError = S.time],
                 st |-> Status("stFatal", "errInvalidAddr"), path |-> path]
           ELSE LET c == SocketConnect([S1 EXCEPT !.pAddresses =
                                                     in.resolve - 1], in)
                IN  [S |-> IF IsOK(c.st)
                           THEN [c.S EXCEPT !.pSubStreams[0].status =
                                              "Connecting"]
                           ELSE c.S,
                     st |-> c.st, path |-> path]

\* lines 234-236 of Stream::Send: the message is bound to a session that
\* is not the current one
SessionBounced_NotConnectedOnly(S, msg) ==
  msg.sessionId # 0 /\ S.pSubStreams[0].status # "Connected"

SessionBounced(S, msg) ==
  /\ msg.sessionId # 0
  /\ \/ S.pSubStreams[0].status # "Connected"
     \/ S.pSessionId # msg.sessionId

\* Stream::Send: path is what MultiplexSubStream answers for the message;
\* the queued item remembers the sub-stream it was first queued on and
\* accepted counts the messages queued so far
StreamSend(S, msg, path, in) ==
  IF SessionBounced(S, msg)
  THEN [S EXCEPT !.lastCall.st = Status("stError", "errInvalidSession")]
  ELSE LET p0 == IF Size(S) <= path.up THEN [path EXCEPT !.up = 0] ELSE path
           e  == StreamEnableLink(S, p0, in)
       IN  IF IsOK(e.st)
           THEN [e.S EXCEPT !.pSubStreams[e.path.up].outQueue =
                              Append(@, [msg EXCEPT !.up = e.path.up]),
                            !.accepted = @ + 1,
                            !.lastCall.st = e.st]
           ELSE [e.S EXCEPT !.lastCall.st = [e.st EXCEPT !.status = "stFatal"]]

\* OutQueue::GrabStateful and what it leaves; OutQueue::GetSizeStateless
Stateful(q) == SelectSeq(q, LAMBDA x : x.stateful)

Stateless(q) == SelectSeq(q, LAMBDA x : ~x.stateful)

\* the out queues of the sub-streams from i on, one after the other
RECURSIVE AllQueued(_, _)
AllQueued(S, i) ==
  IF i >= Size(S) THEN <<>>
  ELSE S.pSubStreams[i].outQueue \o AllQueued(S, i + 1)

\* OutQueue::Report: every handler of the queue is told the status
Reports(q, status) == [i \in 1..Len(q) |-> [msg |-> q[i], st |-> status]]

FatalSeverity_Kept(status) == status

\* status.status = stFatal
FatalSeverity(status) == [status EXCEPT !.status = "stFatal"]

\* Stream::OnFatalError: lock is the scoped lock of the caller
StreamOnFatalError(S, subStream, status) ==
  LET q  == AllQueued(S, 0)
      st == FatalSeverity(status)
  IN  Invoke(UnLock(
        [S EXCEPT !.pSubStreams =
                    [i \in DOMAIN @ |->
                       [@[i] EXCEPT !.outQueue = <<>>,
                                    !.status = IF i = subStream
                                               THEN "Disconnected" ELSE @]],
                  !.pConnectionCount = 0,
                  !.pLastStreamError = S.time,
                  !.lastCall.reports = @ \o Reports(q, st),
                  !.lastCall.event = "FatalError"]))

\* OutQueue::GrabItems: sub-stream 0 takes the queue of sub-stream i
GrabItems(S, i) ==
  [S EXCEPT !.pSubStreams[0].outQueue = @ \o S.pSubStreams[i].outQueue,
            !.pSubStreams[i].outQueue = <<>>]

\* lines 433-446 of Stream::OnConnect: the extra sub-streams from i on
RECURSIVE ConnectSubStreams(_, _, _)
ConnectSubStreams(S, i, in) ==
  IF i >= Size(S) THEN S
  ELSE LET c == SocketConnect(S, in)
       IN  ConnectSubStreams(
             IF IsOK(c.st)
             THEN [c.S EXCEPT !.pSubStreams[i].status = "Connecting"]
             ELSE GrabItems(c.S, i),
             i + 1, in)

NextSession_Same(id) == id

\* ++pSessionId
NextSession(id) == id + 1

\* Stream::OnConnect
StreamOnConnect(S, subStream, in) ==
  LET S1 == [S EXCEPT !.pSubStreams[subStream].status = "Connected"] IN
  IF subStream # 0 THEN S1
  ELSE LET S2 == [S1 EXCEPT !.pLastStreamError = 0,
                            !.pConnectionCount = 0,
                            !.pSessionId = NextSession(@)]
           S3 == IF Size(S2) = 1 /\ in.numSub > 1
                 THEN [S2 EXCEPT !.pSubStreams =
                         [i \in 0..(in.numSub - 1) |->
                            IF i = 0 THEN S2.pSubStreams[0]
                            ELSE SubStreamData]]
                 ELSE S2
       IN  ConnectSubStreams(S3, 1, in)

\* Stream::OnConnectError
StreamOnConnectError(S0, subStream, st, in) ==
  LET S       == Lock(S0)
      fatal   == Status("stFatal", "errConnectionError")
      elapsed == S.time - S.pConnectionInitTime
  IN
  Leave(
  IF subStream > 0
  THEN LET S1 == GrabItems([S EXCEPT !.pSubStreams[subStream].status =
                                       "Disconnected"], subStream)
       IN  IF S1.pSubStreams[0].status = "Connected"
           THEN IF IsOK(EnableUplink(in)) THEN S1
                ELSE StreamOnFatalError(S1, 0, EnableUplink(in))
           ELSE IF S1.pSubStreams[0].status = "Connecting" THEN S1
           ELSE StreamOnFatalError(S1, subStream, st)
  ELSE IF elapsed < pConnectionWindow
  THEN IF S.pAddresses > 0
       THEN LET c == SocketConnect([S EXCEPT !.pAddresses = @ - 1], in)
            IN  IF IsOK(c.st) THEN c.S
                ELSE StreamOnFatalError(c.S, subStream, c.st)
       ELSE IF S.pConnectionCount < pConnectionRetry
       THEN [S EXCEPT !.tasks = @ \cup {S.pConnectionInitTime
                                          + pConnectionWindow}]
       ELSE StreamOnFatalError(S, subStream, fatal)
  ELSE IF S.pConnectionCount < pConnectionRetry
  THEN LET e == StreamEnableLink(
                  [S EXCEPT !.pAddresses = 0,
                            !.pSubStreams[0].status = "Disconnected"],
                  [up |-> 0, down |-> 0], in)
       IN  IF IsOK(e.st) THEN e.S
           ELSE StreamOnFatalError(e.S, subStream, fatal)
  ELSE StreamOnFatalError(S, subStream, fatal),
  S0.lastCall.locks)

PushFront_AtTheBack(q, h) == q \o h

\* "Reinsert the stuff that we have failed to sent": outQueue->PushFront
PushFront(q, h) == h \o q

\* Stream::OnError
StreamOnError(S0, subStream, status, in) ==
  LET S  == Lock(S0)
      h  == S.pSubStreams[subStream].msgHelper
      S1 == [S EXCEPT !.pSubStreams[subStream] =
                        [@ EXCEPT !.status = "Disconnected",
                                  !.outQueue = PushFront(@, h),
                                  !.msgHelper = <<>>]]
  IN
  Leave(
  IF subStream > 0
  THEN IF S1.pSubStreams[subStream].outQueue = <<>> THEN S1
       ELSE IF S1.pSubStreams[0].status # "Disconnected"
               /\ S1.pSubStreams[0].status = "Connected"
            THEN LET S2 == GrabItems(S1, subStream)
                 IN  IF IsOK(EnableUplink(in)) THEN S2
                     ELSE StreamOnFatalError(S2, 0, EnableUplink(in))
            ELSE StreamOnFatalError(
                   IF S1.pSubStreams[0].status # "Disconnected"
                   THEN GrabItems(S1, subStream) ELSE S1,
                   subStream, status)
  ELSE LET outstanding == Len(Stateless(AllQueued(S1, 0)))
           e  == IF outstanding > 0
                 THEN StreamEnableLink(S1, [up |-> 0, down |-> 0], in)
                 ELSE [S |-> S1, st |-> StatusOK]
       IN  IF ~IsOK(e.st) THEN StreamOnFatalError(e.S, 0, e.st)
           ELSE Invoke(UnLock(
                  [e.S EXCEPT
                     !.pSubStreams =
                       [i \in DOMAIN @ |->
                          [@[i] EXCEPT !.outQueue = Stateless(@)]],
                     !.lastCall.reports =
                       @ \o Reports(Stateful(AllQueued(e.S, 0)), status),
                     !.lastCall.event = "Broken"])),
  S0.lastCall.locks)

\* Stream::OnReadyToWrite
StreamOnReadyToWrite(S, subStream) ==
  LET q == S.pSubStreams[subStream].outQueue IN
  IF q = <<>> THEN S
  ELSE Leave(Invoke(UnLock(Lock(
         [S EXCEPT !.pSubStreams[subStream].msgHelper = <<Head(q)>>,
                   !.pSubStreams[subStream].outQueue = Tail(q)]))),
         S.lastCall.locks)

StreamOnMessageSent_SlotKept(S, subStream) ==
  LET h == S.pSubStreams[subStream].msgHelper IN
  Invoke([S EXCEPT !.lastCall.reports = @ \o Reports(h, StatusOK)])

\* Stream::OnMessageSent
StreamOnMessageSent(S, subStream) ==
  LET h == S.pSubStreams[subStream].msgHelper IN
  Invoke([S EXCEPT !.lastCall.reports = @ \o Reports(h, StatusOK),
                   !.pSubStreams[subStream].msgHelper = <<>>])

\* OutQueue::GrabExpired: the items whose expiration has come, and the rest
Expired(q, t) == SelectSeq(q, LAMBDA x : x.expires <= t)

NotExpired(q, t) == SelectSeq(q, LAMBDA x : x.expires > t)

TimeoutStatus_ConnectionError == Status("stFatal", "errConnectionError")

\* q.Report( Status( stError, errSocketTimeout ) )
TimeoutStatus == Status("stError", "errSocketTimeout")

\* Stream::Tick: the expired items of every sub-stream are taken under the
\* mutex and reported after it is released; the in-queue is told the time
StreamTickAt(S, t) ==
  Invoke(UnLock(
    [Lock(S) EXCEPT
       !.pSubStreams =
         [i \in DOMAIN @ |-> [@[i] EXCEPT !.outQueue = NotExpired(@, t)]],
       !.lastCall.reports =
         @ \o Reports(Expired(AllQueued(S, 0), t), TimeoutStatus),
       !.lastCall.event = "ReportTimeout"]))

\* Stream::ForceConnect
StreamForceConnect(S, in) ==
  LET e == StreamEnableLink(
             [Lock(S) EXCEPT !.pSubStreams[0].status = "Disconnected"],
             [up |-> 0, down |-> 0], in)
  IN  Leave(IF IsOK(e.st) THEN e.S
            ELSE StreamOnConnectError(e.S, 0, e.st, in),
            S.lastCall.locks)

(***************************************************************************)
(* The requests as MessageUtils::SendMessage leaves them: a stream id from *)
(* the channel's SID manager, the url in the host list, the message in the *)
(* out queue                                                               *)
(***************************************************************************)
(***************************************************************************)
(* Env: a map of integers and a map of strings, each entry with the flag   *)
(* "imported from the shell".  A string is the sequence of its characters  *)
(***************************************************************************)
MaxShellLen == 2

Keys == {"k1", "k2"}

Chars == {"1", "x"}

Strings == UNION {[1..n -> Chars] : n \in 0..MaxShellLen}

PutInts == {1, 2}

PutStrings == {<<"1">>, <<"x">>}

NoEntry == [present |-> FALSE, value |-> 0, imported |-> FALSE]

Entry(value, imported) ==
  [present |-> TRUE, value |-> value, imported |-> imported]

NoEnvCall == [op |-> "none", key |-> "k1", value |-> 0, ret |-> FALSE]

NewEnv ==
  [pIntMap |-> [k \in Keys |-> NoEntry],
   pStringMap |-> [k \in Keys |-> NoEntry], last |-> NoEnvCall]

EnvCall(E, op, key, value, ret) ==
  [E EXCEPT !.last = [op |-> op, key |-> key, value |-> value, ret |-> ret]]

Imported_Never(e) == FALSE

\* it->second.second
Imported(e) == e.imported

\* Env::GetString and Env::GetInt
EnvGetString(E, key) ==
  [ret |-> E.pStringMap[key].present, value |-> E.pStringMap[key].value]

EnvGetInt(E, key) ==
  [ret |-> E.pIntMap[key].present, value |-> E.pIntMap[key].value]

\* Env::PutString
EnvPutString(E, key, value) ==
  IF ~E.pStringMap[key].present
  THEN EnvCall([E EXCEPT !.pStringMap[key] = Entry(value, FALSE)],
               "PutString", key, value, TRUE)
  ELSE IF Imported(E.pStringMap[key])
  THEN EnvCall(E, "PutString", key, value, FALSE)
  ELSE EnvCall([E EXCEPT !.pStringMap[key] = Entry(value, FALSE)],
               "PutString", key, value, TRUE)

\* Env::PutInt
EnvPutInt(E, key, value) ==
  IF ~E.pIntMap[key].present
  THEN EnvCall([E EXCEPT !.pIntMap[key] = Entry(value, FALSE)],
               "PutInt", key, value, TRUE)
  ELSE IF Imported(E.pIntMap[key])
  THEN EnvCall(E, "PutInt", key, value, FALSE)
  ELSE EnvCall([E EXCEPT !.pIntMap[key] = Entry(value, FALSE)],
               "PutInt", key, value, TRUE)

IsDigit(c) == c = "1"

DigitOf(c) == IF c = "1" THEN 1 ELSE 0

\* strtol( str, &endPtr, 0 ): the value of the digits str starts with and
\* the position where they end
RECURSIVE Strtol(_, _, _)
Strtol(str, i, acc) ==
  IF i > Len(str) \/ ~IsDigit(str[i]) THEN [value |-> acc, endPtr |-> i]
  ELSE Strtol(str, i + 1, acc * 10 + DigitOf(str[i]))

\* Env::ImportInt: strValue is what GetEnv( shellKey ) returns
EnvImportInt(E, key, strValue) ==
  LET n == Strtol(strValue, 1, 0) IN
  IF strValue = <<>> THEN EnvCall(E, "ImportInt", key, strValue, FALSE)
  ELSE IF n.endPtr <= Len(strValue)
  THEN EnvCall(E, "ImportInt", key, strValue, FALSE)
  ELSE EnvCall([E EXCEPT !.pIntMap[key] = Entry(n.value, TRUE)],
               "ImportInt", key, strValue, TRUE)

\* Env::ImportString
EnvImportString(E, key, value) ==
  IF value = <<>> THEN EnvCall(E, "ImportString", key, value, FALSE)
  ELSE EnvCall([E EXCEPT !.pStringMap[key] = Entry(value, TRUE)],
               "ImportString", key, value, TRUE)

(***************************************************************************)
(* DeepLocateHandler.  A locate response is a status and a list of         *)
(* locations; the sub-requests in flight are counted in pending; every     *)
(* thread that delivers responses is at rest or inside HandleResponse, in  *)
(* the loop over the locations of the response it delivers                 *)
(***************************************************************************)
MaxLocates == 3
MaxEntries == 2

Threads == {"poller", "timer"}

\* Location: the address and what IsServer answers; a location that is not
\* a server is a manager
Locations ==
  {[address |-> "s1", server |-> TRUE], [address |-> "s2", server |-> TRUE],
   [address |-> "m1", server |-> FALSE]}

IsServer(l) == l.server

IsManager(l) == ~l.server

\* the lists one node answers with: no address twice
Infos ==
  {info \in UNION {[1..n -> Locations] : n \in 0..MaxEntries} :
     \A i, j \in DOMAIN info : i # j => info[i].address # info[j].address}

Failures ==
  {Status("stError", "errSocketTimeout"),
   Status("stFatal", "errConnectionError")}

NotFound ==
  [status |-> "stError", code |-> "errErrorResponse", errNo |-> "kXR_NotFound"]

Resting == [pc |-> "rest", info |-> <<>>, i |-> 0]

\* DeepLocateHandler::DeepLocateHandler, and FileSystem::DeepLocate having
\* sent the first locate.  told: what the caller's handler received;
\* found, failure: the servers seen so far and the first failure with the
\* locations held when it came; raced: a response was delivered while
\* another thread was inside HandleResponse
NewDeepLocate ==
  [pFirstTime |-> TRUE, pOutstanding |-> 1, pLocations |-> <<>>,
   alive |-> TRUE, deletes |-> 0, uaf |-> FALSE, told |-> <<>>,
   pending |-> 1, issued |-> 1, found |-> {}, failure |-> <<>>,
   raced |-> FALSE,
   thr |-> [t \in Threads |-> Resting]]

\* what a thread finds in the object: its fields, or after delete this
\* whatever the freed memory holds
Use(D) ==
  IF D.alive THEN {D}
  ELSE {[D EXCEPT !.uaf = TRUE, !.pOutstanding = n, !.pFirstTime = b] :
          n \in 0..1, b \in BOOLEAN}

\* pHandler->HandleResponse( status, response )
Tell(D, st, locations) ==
  [D EXCEPT !.told = Append(@, [st |-> st, locations |-> locations,
                                pending |-> D.pending])]

\* delete this
DeleteThis(D) == [D EXCEPT !.alive = FALSE, !.deletes = @ + 1]

\* DeepLocateHandler::HandleResponse(): build the response for the client
BuildResponse(D) ==
  IF D.pLocations = <<>>
  THEN DeleteThis(Tell(D, NotFound, <<>>))
  ELSE DeleteThis(Tell([D EXCEPT !.pLocations = <<>>], StatusOK,
                       D.pLocations))

\* LocationInfo::Add
Add(locs, l) == Append(locs, l)

\* DeepLocateHandler::HandleResponse up to the loop: thread t delivers the
\* status st and, with an OK status, the locations info
DeepLocateBegin(D0, t, st, info) ==
  LET D == [D0 EXCEPT !.pending = @ - 1,
                      !.pOutstanding = (@ - 1) % 65536,
                      !.raced = @ \/ \E o \in Threads :
                                       D0.thr[o].pc = "loop"]
  IN  IF ~IsOK(st)
      THEN LET D1 == IF D.failure = <<>>
                     THEN [D EXCEPT !.failure =
                             <<[st |-> st, had |-> D.pLocations]>>]
                     ELSE D
           IN  IF D1.pFirstTime THEN DeleteThis(Tell(D1, st, <<>>))
               ELSE IF D1.pOutstanding = 0 THEN BuildResponse(D1)
               ELSE D1
      ELSE [D EXCEPT !.pFirstTime = FALSE,
                     !.thr[t] = [pc |-> "loop", info |-> info, i |-> 1]]

\* one turn of the loop: a server is added, a manager is asked and counted
\* if the request could be sent
DeepLocateIterate(D, t, sent) ==
  LET l  == D.thr[t].info[D.thr[t].i]
      D1 == [D EXCEPT !.thr[t].i = @ + 1]
  IN  IF IsServer(l)
      THEN [D1 EXCEPT !.pLocations = Add(@, l),
                      !.found = @ \cup {l.address}]
      ELSE IF IsManager(l) /\ sent
      THEN [D1 EXCEPT !.pending = @ + 1, !.issued = @ + 1,
                      !.pOutstanding = (@ + 1) % 65536]
      ELSE D1

\* after the loop: the response is given out if nothing is outstanding
DeepLocateFinish(D, t) ==
  LET D1 == [D EXCEPT !.thr[t] = Resting]
  IN  IF D1.pOutstanding = 0 THEN BuildResponse(D1) ELSE D1

(***************************************************************************)
(* InQueue on its own: messages are numbered in the order they arrive, a   *)
(* handler is any IncomingMsgHandler and what its OnIncoming returns (the  *)
(* bits Take and RemoveHandler) is an input of the call                    *)
(***************************************************************************)
MaxMessages == 3
MaxMsgHandlers == 2
MaxExpires == 2
MaxWaits == 2

Actions == [take : BOOLEAN, remove : BOOLEAN]

NoAction == [take |-> FALSE, remove |-> FALSE]

\* offered: the messages the last AddMessageHandler call handed to OnIncoming;
\* called: the handlers the last AddMessage call called, with their answers
NoTimeouts == [now |-> 0, time |-> 0, told |-> <<>>]

\* expires: the expiration each registered handler was added with, 0 for a
\* handler that is not registered; timeouts: the last call of ReportTimeout
NewInQueue ==
  [pMessages |-> <<>>, pHandlers |-> <<>>, arrived |-> 0, offered |-> <<>>,
   called |-> <<>>, expires |-> [k \in 1..MaxMsgHandlers |-> 0],
   timeouts |-> NoTimeouts]

\* HandlerAndExpire: the expirations of the handlers that are registered
Expirations(Q, handler, expires) ==
  [Q EXCEPT !.expires =
     [k \in 1..MaxMsgHandlers |->
        IF \A i \in 1..Len(Q.pHandlers) : Q.pHandlers[i] # k THEN 0
        ELSE IF k = handler THEN expires ELSE @[k]],
            !.timeouts = NoTimeouts]

Due_Before(expires, t) == expires < t

\* it->second <= now
Due(expires, t) == expires <= t

\* the loop of ReportTimeout over pHandlers from position i
RECURSIVE TimeoutLoop(_, _, _, _, _)
TimeoutLoop(hs, i, expires, t, told) ==
  IF i > Len(hs) THEN [pHandlers |-> hs, told |-> told]
  ELSE IF Due(expires[hs[i]], t)
  THEN TimeoutLoop(RemoveAt(hs, i), i, expires, t,
                   Append(told, [handler |-> hs[i], event |-> "Timeout",
                                 streamNum |-> 0,
                                 status |-> Status("stError",
                                                   "errOperationExpired")]))
  ELSE TimeoutLoop(hs, i + 1, expires, t, told)

\* InQueue::ReportTimeout: time is what ::time(0) answers
InQueueReportTimeout(Q, nowArg, time) ==
  LET r == TimeoutLoop(Q.pHandlers, 1, Q.expires,
                       IF nowArg = 0 THEN time ELSE nowArg, <<>>)
  IN  [Expirations([Q EXCEPT !.pHandlers = r.pHandlers], 0, 0) EXCEPT
         !.timeouts = [now |-> nowArg, time |-> time, told |-> r.told],
         !.offered = <<>>, !.called = <<>>]

Taken_Never(action) == FALSE

\* action & IncomingMsgHandler::Take
Taken(action) == action.take

\* the loop of AddMessage over pHandlers: erase( it ) and --it leave the loop
\* at the handler that followed the erased one
RECURSIVE OfferToHandlers(_, _, _, _, _)
OfferToHandlers(hs, i, act, action, seen) ==
  IF i > Len(hs) THEN [pHandlers |-> hs, action |-> action, called |-> seen]
  ELSE IF Taken(act[hs[i]])
  THEN [pHandlers |-> IF act[hs[i]].remove THEN RemoveAt(hs, i) ELSE hs,
        action    |-> act[hs[i]],
        called    |-> Append(seen, [handler |-> hs[i], action |-> act[hs[i]]])]
  ELSE IF act[hs[i]].remove
  THEN OfferToHandlers(RemoveAt(hs, i), i, act, act[hs[i]],
                       Append(seen, [handler |-> hs[i],
                                     action |-> act[hs[i]]]))
  ELSE OfferToHandlers(hs, i + 1, act, act[hs[i]],
                       Append(seen, [handler |-> hs[i],
                                     action |-> act[hs[i]]]))

\* pMessages.push_front( msg ) unless the message was taken
InQueueAddMessage(Q, msg, act) ==
  LET r == OfferToHandlers(Q.pHandlers, 1, act, NoAction, <<>>)
  IN  [Q EXCEPT !.pHandlers = r.pHandlers,
                !.pMessages = IF ~r.action.take THEN <<msg>> \o @ ELSE @,
                !.arrived   = msg,
                !.offered   = <<>>,
                !.called    = r.called]

\* the loop of AddMessageHandler over pMessages, from begin() on
RECURSIVE OfferMessages(_, _, _, _, _)
OfferMessages(ms, i, act, action, seen) ==
  IF i > Len(ms)
  THEN [pMessages |-> ms, action |-> action, offered |-> seen]
  ELSE IF act[ms[i]].remove
  THEN [pMessages |-> IF act[ms[i]].take THEN RemoveAt(ms, i) ELSE ms,
        action    |-> act[ms[i]],
        offered   |-> Append(seen, ms[i])]
  ELSE IF act[ms[i]].take
  THEN OfferMessages(RemoveAt(ms, i), i, act, act[ms[i]],
                     Append(seen, ms[i]))
  ELSE OfferMessages(ms, i + 1, act, act[ms[i]], Append(seen, ms[i]))

\* pHandlers.push_back( handler ) unless the handler asked to be removed
InQueueAddMessageHandler(Q, handler, act) ==
  LET r == OfferMessages(Q.pMessages, 1, act, NoAction, <<>>)
  IN  [Q EXCEPT !.pMessages = r.pMessages,
                !.pHandlers = IF ~r.action.remove THEN Append(@, handler)
                              ELSE @,
                !.offered   = r.offered,
                !.called    = <<>>]

NewHandler(url, sid, counter, session, asAnswer) ==
  [alive |-> TRUE, pUrl |-> url, sid |-> sid, pSidMgr |-> url,
   pRedirectCounter |-> counter, pRedirectAsAnswer |-> asAnswer,
   pLoadBalancer |-> NoHost, pHasLoadBalancer |-> FALSE,
   pHosts |-> <<HostInfo(url)>>, pPartialResps |-> <<>>,
   pResponse |-> NoMsg, pStatus |-> StatusOK,
   pExpiration |-> Expiration, sessionId |-> session]

NoResult == [status |-> StatusOK, response |-> NoResponse, hosts |-> <<>>,
             sidop |-> "none"]

RECURSIVE QueueOf(_, _, _)
QueueOf(u, c, hs) ==
  IF hs = {} THEN <<>>
  ELSE LET h == CHOOSE x \in hs : \A y \in hs : x <= y
       IN  (IF u[h] = c THEN <<h>> ELSE <<>>) \o QueueOf(u, c, hs \ {h})

NoUnpack == [phase |-> "none"]

NoSync == [pc |-> "none"]

NoRead == [phase |-> "none"]

NoBalancer == [phase |-> "none"]

NoRewrite == [phase |-> "none"]

\* the requests of other handlers that are in flight: at most one here
OtherRequests ==
  {{}} \cup {{[chan |-> c, sid |-> s]} : c \in Hosts, s \in SIDs}

\* one channel all of whose stream ids other requests hold
BusyChannel == {{[chan |-> c, sid |-> s] : s \in SIDs} : c \in Hosts}

\* the requests as they are after MessageUtils::SendMessage, among the
\* requests of other handlers in one of os; recent tells how much of the
\* record of a request is kept from step to step
RequestsAmong(recent, os) ==
  \E u \in [Handlers -> Hosts], s \in [Handlers -> SIDs],
     n \in [Handlers -> 0..MaxRedirects], ss \in [Handlers -> {0, 1}],
     ra \in [Handlers -> BOOLEAN], o \in os :
    /\ \A h1, h2 \in Handlers : h1 # h2 /\ u[h1] = u[h2] => s[h1] # s[h2]
    /\ \A h \in Handlers : [chan |-> u[h], sid |-> s[h]] \notin o
    /\ hd = [h \in Handlers |-> NewHandler(u[h], s[h], n[h], ss[h], ra[h])]
    /\ outQ = [c \in Hosts |-> QueueOf(u, c, Handlers)]
    /\ inFlight = [c \in Hosts |-> 0]
    /\ inQ = [c \in Hosts |-> <<>>]
    /\ sidUsed = [c \in Hosts |->
                    {s[h] : h \in {x \in Handlers : u[x] = c}}
                      \cup {r.sid : r \in {x \in o : x.chan = c}}]
    /\ sidTimedOut = [c \in Hosts |-> {}]
    /\ others = o
    /\ waitTasks = {}
    /\ now = 0
    /\ swept = FALSE
    /\ calls = [h \in Handlers |-> 0]
    /\ result = [h \in Handlers |-> NoResult]
    /\ uaf = [h \in Handlers |-> FALSE]
    /\ hist = [h \in Handlers |->
                 [sent |-> <<u[h]>>, redirSeen |-> 0, redirSends |-> 0,
                  limit |-> n[h], frames |-> <<>>, recent |-> recent,
                  holds |-> {[mgr |-> u[h], sid |-> s[h]]}, stray |-> {},
                  attempt |-> <<>>]]
    /\ stream = NewStream
    /\ uv = NoUnpack
    /\ iq = NewInQueue /\ env = NewEnv /\ dl = NewDeepLocate /\ sync = NoSync /\ rd = NoRead /\ lb = NoBalancer /\ rq = NoRewrite

Requests(recent) == RequestsAmong(recent, OtherRequests)

Init == Requests(FALSE)

BusyInit == RequestsAmong(FALSE, BusyChannel)

\* the request of another handler ends: its stream id is released
OtherRequestDone ==
  \E r \in others :
    /\ others' = others \ {r}
    /\ sidUsed' = [sidUsed EXCEPT ![r.chan] = @ \ {r.sid}]
    /\ UNCHANGED <<hd, outQ, inFlight, inQ, sidTimedOut, waitTasks, now,
                   calls, result, uaf, hist, swept, stream, uv, iq, env, dl, sync, rd, lb, rq>>

Next ==
  \/ \E c \in Hosts : ReadyToWrite(c)
  \/ \E c \in Hosts : MessageSent(c)
  \/ \E c \in Hosts : Incoming(c)
  \/ \E c \in Hosts : StreamError(c)
  \/ \E c \in Hosts : StreamFatalError(c)
  \/ Tick
  \/ \E h \in Handlers : RunWaitTask(h)
  \/ AdvanceTime
  \/ OtherRequestDone

Spec == Init /\ [][Next]_vars

\* the same requests when another channel has no stream id to give
BusySpec == BusyInit /\ [][Next]_vars

(***************************************************************************)
(* Properties of the message handler                                       *)
(***************************************************************************)
Queued(h, c) == \E i \in 1..Len(outQ[c]) : outQ[c][i] = h

Waiting(h) == \E t \in waitTasks : t.handler = h

Referenced(h) ==
  \/ \E c \in Hosts : Queued(h, c) \/ inFlight[c] = h \/ h \in Registered(c)
  \/ Waiting(h)

Terminated(h) == ~hd[h].alive /\ calls[h] = 1

RECURSIVE Flatten(_)
Flatten(ss) == IF ss = <<>> THEN <<>> ELSE Head(ss) \o Flatten(Tail(ss))

\* C1: HandleResponse runs at most once for a handler, the ResponseHandler is
\* called with it, and once the handler has destroyed itself no queue, slot
\* or task refers to it and no callback has touched it.
C1_OneTerminalNotification ==
  \A h \in Handlers :
    /\ calls[h] <= 1
    /\ ~uaf[h]
    /\ hd[h].alive => calls[h] = 0
    /\ ~hd[h].alive => calls[h] = 1 /\ ~Referenced(h)

C1_Witness ==
  \E h \in Handlers :
    Terminated(h) /\ Len(hist[h].sent) >= 2 /\ IsOK(result[h].status)

\* C2: no two in-flight requests on one channel carry the same stream id:
\* the stream id of a handler that is queued, being written or awaiting its
\* reply on a channel is not the stream id of another request in flight on
\* that channel.
C2_UniqueStreamIds ==
  \A h \in Handlers, c \in Hosts :
    hd[h].alive /\ (Queued(h, c) \/ inFlight[c] = h \/ h \in Registered(c))
      => [chan |-> c, sid |-> hd[h].sid] \notin others

\* C3: a handler created with redirect counter N sends its request to the
\* target of at most N redirects; the redirect after those ends it with
\* RedirectLimit and nothing is sent to its target.
C3_BoundedRedirects ==
  \A h \in Handlers :
    /\ hist[h].redirSends <= hist[h].limit
    /\ hist[h].redirSeen <= hist[h].limit + 1
    /\ hist[h].redirSeen = hist[h].limit + 1 =>
         /\ Terminated(h)
         /\ result[h].status.code = "errRedirectLimit"
         /\ hist[h].redirSends = hist[h].limit

C3_Witness ==
  \E h \in Handlers :
    /\ hist[h].limit >= 1
    /\ hist[h].redirSeen = hist[h].limit + 1
    /\ result[h].status.code = "errRedirectLimit"

C7_RecoveredAtLoadBalancer ==
  \A h \in Handlers :
    Terminated(h) /\ result[h].status.code = "errErrorResponse"
      => ~ /\ result[h].status.errNo \in RecoverableErrNos
           /\ hd[h].pLoadBalancer # NoHost
           /\ hd[h].pUrl # hd[h].pLoadBalancer

\* C8 as stated: a request ended because its expiration passed, swept from an
\* out queue (SocketTimeout) or from the in-queue (OperationExpired), has its
\* stream id quarantined with TimeOutSID.
C8_ExpiredIsQuarantined ==
  \A h \in Handlers :
    Terminated(h)
    /\ result[h].status.code \in {"errOperationExpired", "errSocketTimeout"}
      => result[h].sidop = "TimeOutSID"

\* C8 amended: a request that was registered in the in-queue and is ended
\* because its expiration passed (OperationExpired) has its stream id
\* quarantined with TimeOutSID: it is not free in its SID manager.
C8_InQueueExpiredIsQuarantined ==
  \A h \in Handlers :
    Terminated(h) /\ result[h].status.code = "errOperationExpired"
      => /\ result[h].sidop = "TimeOutSID"
         /\ hd[h].sid \in sidTimedOut[hd[h].pSidMgr]
         /\ hd[h].sid \notin FreeSIDs(World(Quiet, 1), hd[h].pSidMgr)

C8_Witness ==
  \E h \in Handlers :
    Terminated(h) /\ result[h].status.code = "errOperationExpired"

\* C9: the first tick at or after the expiration of a request ends it, be it
\* queued for sending, awaiting a reply (also after kXR_waitresp) or
\* suspended after kXR_wait.
C9_FirstTickDelivers ==
  [][\A h \in Handlers :
       /\ ~swept /\ swept'
       /\ hd[h].alive
       /\ now >= hd[h].pExpiration
       /\ \/ \E c \in Hosts : Queued(h, c) \/ h \in Registered(c)
          \/ Waiting(h)
       => ~hd'[h].alive]_vars

\* C10: the host list delivered with the terminal response has one record
\* per send attempt, in attempt order.
C10_OneHostPerAttempt ==
  \A h \in Handlers :
    Terminated(h)
      => [i \in 1..Len(result[h].hosts) |-> result[h].hosts[i].url]
           = hist[h].sent

\* the step in which handler h is given a kXR_redirect response
GotRedirect(h) == hist'[h].redirSeen = hist[h].redirSeen + 1

\* nothing is sent again for h and its host list does not grow
NotFollowed(h) ==
  /\ hist'[h].sent = hist[h].sent
  /\ hist'[h].redirSends = hist[h].redirSends
  /\ Len(hd'[h].pHosts) = Len(hd[h].pHosts)
  /\ Len(result'[h].hosts) = Len(hd[h].pHosts)
  /\ \A c \in Hosts : ~Queued(h, c)'

AnsweredWithRedirect(h) ==
  /\ result'[h].status = Status("stOK", "suXRDRedirect")
  /\ result'[h].response.kind = "RedirectInfo"
  /\ result'[h].response.host = hd'[h].pUrl

\* C11 (as stated): with redirect-as-answer set, a kXR_redirect response ends
\* the request with an OK status of code XRDRedirect and a RedirectInfo, and
\* the redirect is not followed.
C11_RedirectIsTheAnswer ==
  [][\A h \in Handlers :
       hd[h].pRedirectAsAnswer /\ GotRedirect(h)
         => /\ ~hd'[h].alive /\ calls'[h] = 1
            /\ AnsweredWithRedirect(h)
            /\ NotFollowed(h)]_vars

\* C11 (amended): with redirect-as-answer set, a kXR_redirect response ends
\* the request without following the redirect; the status is a fatal
\* RedirectLimit if the redirect counter was zero, InvalidRedirectURL if the
\* response names no valid URL, and otherwise OK with code XRDRedirect and a
\* RedirectInfo that names the URL of the response.
C11_RedirectEndsRequest ==
  [][\A h \in Handlers :
       hd[h].pRedirectAsAnswer /\ GotRedirect(h)
         => /\ ~hd'[h].alive /\ calls'[h] = 1
            /\ NotFollowed(h)
            /\ IF hd[h].pRedirectCounter = 0
               THEN /\ result'[h].status
                         = Status("stFatal", "errRedirectLimit")
                    /\ result'[h].response = NoResponse
               ELSE IF hd'[h].pUrl = NoHost
               THEN /\ result'[h].status
                         = Status("stError", "errInvalidRedirectURL")
                    /\ result'[h].response = NoResponse
               ELSE AnsweredWithRedirect(h)]_vars

C11_Witness ==
  \E h \in Handlers :
    /\ hd[h].pRedirectAsAnswer
    /\ Terminated(h)
    /\ hist[h].redirSeen = 1
    /\ result[h].status.code = "suXRDRedirect"
    /\ result[h].response.kind = "RedirectInfo"
    /\ result[h].response.host = "A"

(***************************************************************************)
(* The stream on its own: sends, socket events, the reconnection task and  *)
(* the clock                                                               *)
(***************************************************************************)
\* the messages Send may be given next: seq numbers them in the order
\* they are accepted
MaxTimeout == 2

\* an expiration the clock does not reach
FarAway == StartTime + MaxStreamTime + MaxTimeout

OutMsgs ==
  [sessionId : 0..MaxSession, stateful : BOOLEAN,
   seq : {stream.accepted + 1}, up : {0}, expires : {FarAway}]

\* the messages of a client that gives each one a timeout
TimedMsgs ==
  [sessionId : {0}, stateful : BOOLEAN, seq : {stream.accepted + 1},
   up : {0}, expires : (stream.time + 1)..(stream.time + MaxTimeout)]

Paths == [up : 0..(MaxSubStreams - 1), down : 0..(MaxSubStreams - 1)]

RECURSIVE InFlightCount(_, _)
InFlightCount(S, i) ==
  IF i >= Size(S) THEN 0
  ELSE Len(S.pSubStreams[i].msgHelper) + InFlightCount(S, i + 1)

StreamCommit(S) ==
  /\ S.pConnectionCount <= MaxAttempts
  /\ S.pSessionId <= MaxSession
  /\ S.accepted <= MaxAccepted
  /\ Len(AllQueued(S, 0)) + InFlightCount(S, 0) <= MaxQueued
  /\ stream' = S

Send ==
  \E msg \in OutMsgs, path \in Paths :
   \E in \in LinkInputs(stream, path) :
    /\ StreamCommit(StreamSend(Call(stream, "Send", <<msg>>), msg, path, in))
    /\ UNCHANGED <<hvars, uv, iq, env, dl, sync, rd, lb, rq>>

\* the socket of sub-stream i is connected
OnConnectAt(i) ==
  \E in \in OnConnectInputs :
    /\ stream.pSubStreams[i].status = "Connecting"
    /\ i = 0 => stream.tasks = {}
    /\ StreamCommit(StreamOnConnect(Call(stream, "OnConnect", <<>>), i, in))
    /\ UNCHANGED <<hvars, uv, iq, env, dl, sync, rd, lb, rq>>

OnConnect == \E i \in DOMAIN stream.pSubStreams : OnConnectAt(i)

OnConnectError ==
  \E i \in DOMAIN stream.pSubStreams,
     in \in LinkInputs(stream, [up |-> 0, down |-> 0]) :
    /\ stream.pSubStreams[i].status = "Connecting"
    /\ i = 0 => stream.tasks = {}
    /\ StreamCommit(StreamOnConnectError(
                      Call(stream, "OnConnectError", <<>>), i,
                      Status("stError", "errConnectionError"), in))
    /\ UNCHANGED <<hvars, uv, iq, env, dl, sync, rd, lb, rq>>

SocketError == Status("stError", "errSocketError")

\* the socket of sub-stream i reports an error
OnErrorAt(i) ==
  \E in \in IF i = 0 THEN ConnectInputs
             ELSE LinkInputs(stream, [up |-> 0, down |-> 0]) :
    /\ stream.pSubStreams[i].status = "Connected"
    /\ StreamCommit(StreamOnError(
                      Call(stream, "OnError", stream.pSubStreams[i].msgHelper),
                      i, SocketError, in))
    /\ UNCHANGED <<hvars, uv, iq, env, dl, sync, rd, lb, rq>>

OnError == \E i \in DOMAIN stream.pSubStreams : OnErrorAt(i)

OnReadyToWrite ==
  \E i \in DOMAIN stream.pSubStreams :
    /\ stream.pSubStreams[i].status = "Connected"
    /\ stream.pSubStreams[i].msgHelper = <<>>
    /\ StreamCommit(StreamOnReadyToWrite(
                      Call(stream, "OnReadyToWrite", <<>>), i))
    /\ UNCHANGED <<hvars, uv, iq, env, dl, sync, rd, lb, rq>>

OnMessageSent ==
  \E i \in DOMAIN stream.pSubStreams :
    /\ stream.pSubStreams[i].status = "Connected"
    /\ stream.pSubStreams[i].msgHelper # <<>>
    /\ StreamCommit(StreamOnMessageSent(
                      Call(stream, "OnMessageSent", <<>>), i))
    /\ UNCHANGED <<hvars, uv, iq, env, dl, sync, rd, lb, rq>>

\* StreamConnectorTask::Run
ForceConnect ==
  \E t \in stream.tasks, in \in ConnectInputs :
    /\ t <= stream.time
    /\ StreamCommit(StreamForceConnect(
                      [Call(stream, "ForceConnect", <<>>)
                         EXCEPT !.tasks = @ \ {t}], in))
    /\ UNCHANGED <<hvars, uv, iq, env, dl, sync, rd, lb, rq>>

\* Stream::Send with an expiration, while nothing listens at the endpoint
SendTimed ==
  \E msg \in TimedMsgs, in \in ConnectInputs :
    /\ StreamCommit(StreamSend(Call(stream, "Send", <<msg>>), msg,
                               [up |-> 0, down |-> 0], in))
    /\ UNCHANGED <<hvars, uv, iq, env, dl, sync, rd, lb, rq>>

StreamTicks ==
  /\ StreamCommit(StreamTickAt(Call(stream, "Tick", <<>>), stream.time))
  /\ UNCHANGED <<hvars, uv, iq, env, dl, sync, rd, lb, rq>>

StreamClock ==
  /\ stream.time < StartTime + MaxStreamTime
  /\ stream' = [stream EXCEPT !.time = @ + 1]
  /\ UNCHANGED <<hvars, uv, iq, env, dl, sync, rd, lb, rq>>

\* the handler side at rest while the stream is studied
HandlersAtRest ==
  /\ hd = [h \in Handlers |-> NewHandler("M", 1, 0, 0, FALSE)]
  /\ outQ = [c \in Hosts |-> <<>>]
  /\ inFlight = [c \in Hosts |-> 0]
  /\ inQ = [c \in Hosts |-> <<>>]
  /\ sidUsed = [c \in Hosts |-> {}]
  /\ sidTimedOut = [c \in Hosts |-> {}]
  /\ others = {}
  /\ waitTasks = {}
  /\ now = 0
  /\ swept = FALSE
  /\ calls = [h \in Handlers |-> 0]
  /\ result = [h \in Handlers |-> NoResult]
  /\ uaf = [h \in Handlers |-> FALSE]
  /\ hist = [h \in Handlers |->
               [sent |-> <<>>, redirSeen |-> 0, redirSends |-> 0,
                limit |-> 0, frames |-> <<>>, recent |-> FALSE,
                holds |-> {}, stray |-> {}, attempt |-> <<>>]]

StreamInit ==
  HandlersAtRest /\ stream = NewStream /\ uv = NoUnpack /\ iq = NewInQueue /\ env = NewEnv /\ dl = NewDeepLocate /\ sync = NoSync /\ rd = NoRead /\ lb = NoBalancer /\ rq = NoRewrite

StreamNext ==
  \/ Send
  \/ OnConnect
  \/ OnConnectError
  \/ OnError
  \/ OnReadyToWrite
  \/ OnMessageSent
  \/ ForceConnect
  \/ StreamClock

StreamSpec == StreamInit /\ [][StreamNext]_vars

\* C4: a Send of a message with a non-zero session id, made while
\* sub-stream 0 is not Connected or the stream's session id differs, fails
\* with InvalidSession, queues the message nowhere and starts no connection.
C4_StaleSessionBounced ==
  [][LET c == stream'.lastCall IN
       /\ c.op = "Send"
       /\ c.msg[1].sessionId # 0
       /\ \/ stream.pSubStreams[0].status # "Connected"
          \/ stream.pSessionId # c.msg[1].sessionId
       => /\ c.st = Status("stError", "errInvalidSession")
          /\ c.connects = 0
          /\ stream'.pSubStreams = stream.pSubStreams
          /\ stream'.pConnectionCount = stream.pConnectionCount]_vars

C4_Witness ==
  /\ stream.lastCall.op = "Send"
  /\ stream.lastCall.st.code = "errInvalidSession"
  /\ stream.pSubStreams[0].status = "Connected"
  /\ stream.lastCall.msg[1].sessionId < stream.pSessionId
  /\ AllQueued(stream, 0) # <<>>

(***************************************************************************)
(* XRootDMsgHandler::UnpackVectorRead.  The response body is given by the  *)
(* records the server wrote, each a header of 16 bytes with rlen and       *)
(* offset followed by rlen bytes of data, and by the size of the body      *)
(***************************************************************************)
MaxChunks == 2
MaxRlen == 1

HeaderSize == 16

Chunks == [offset : 0..MaxRlen, length : 0..MaxRlen]

Records == [offset : 0..MaxRlen, rlen : 0..MaxRlen]

SeqsUpTo(S, n) == UNION {[1..k -> S] : k \in 0..n}

\* the position in the body of the k-th record
RECURSIVE RecordStart(_, _)
RecordStart(recs, k) ==
  IF k <= 1 THEN 0
  ELSE RecordStart(recs, k - 1) + HeaderSize + recs[k - 1].rlen

BodySize(recs) == RecordStart(recs, Len(recs) + 1)

\* the readahead_list the cursor points at; bytes that are no header read
\* as a record no request asks for
RecordAt(recs, pos) ==
  IF \E k \in 1..Len(recs) : RecordStart(recs, k) = pos
  THEN recs[CHOOSE k \in 1..Len(recs) : RecordStart(recs, k) = pos]
  ELSE [offset |-> -1, rlen |-> 0]

\* lines 887-888: the record is the requested chunk
ChunkMatches_LengthOnly(chunk, req) == chunk.rlen = req.length

ChunkMatches(chunk, req) ==
  chunk.rlen = req.length /\ chunk.offset = req.offset

\* the loop of lines 868-924; offset and size are uint32_t and stay far
\* below 2^32 for the bodies considered
RECURSIVE UnpackLoop(_, _, _, _, _, _, _)
UnpackLoop(list, recs, len, offset, reqCurrent, chunks, size) ==
  IF offset > len - HeaderSize
  THEN [st |-> StatusOK, chunks |-> chunks, size |-> size]
  ELSE IF reqCurrent >= Len(list)
  THEN [st |-> Status("stFatal", "errInvalidResponse"), chunks |-> chunks,
        size |-> size]
  ELSE LET chunk == RecordAt(recs, offset)
           size1 == size + chunk.rlen
       IN  IF ~ChunkMatches(chunk, list[reqCurrent + 1])
           THEN [st |-> Status("stFatal", "errInvalidResponse"),
                 chunks |-> chunks, size |-> size1]
           ELSE UnpackLoop(list, recs, len,
                           offset + HeaderSize + chunk.rlen,
                           reqCurrent + 1,
                           Append(chunks, [offset |-> chunk.offset,
                                           length |-> chunk.rlen]),
                           size1)

UnpackVectorRead(list, recs, sourceBufferSize) ==
  UnpackLoop(list, recs, sourceBufferSize, 0, 0, <<>>, 0)

\* a body is whole or cut short by a byte or by a header
BodySizes(recs) ==
  {BodySize(recs) - t : t \in {0, 1, HeaderSize, HeaderSize + 1}} \cap Nat

UnpackInit ==
  /\ HandlersAtRest
  /\ stream = NewStream
  /\ iq = NewInQueue /\ env = NewEnv /\ dl = NewDeepLocate /\ sync = NoSync /\ rd = NoRead /\ lb = NoBalancer /\ rq = NoRewrite
  /\ \E list \in SeqsUpTo(Chunks, MaxChunks),
        recs \in SeqsUpTo(Records, MaxChunks + 1) :
       \E len \in BodySizes(recs) :
         uv = [phase |-> "response", list |-> list, recs |-> recs,
               len |-> len]

Unpack ==
  /\ uv.phase = "response"
  /\ uv' = [phase |-> "done", list |-> uv.list, recs |-> uv.recs,
            len |-> uv.len,
            out |-> UnpackVectorRead(uv.list, uv.recs, uv.len)]
  /\ UNCHANGED <<hvars, stream, iq, env, dl, sync, rd, lb, rq>>

UnpackNext == Unpack

UnpackSpec == UnpackInit /\ [][UnpackNext]_vars

\* the records whose header lies within the body
Visible(recs, len) ==
  Cardinality({k \in 1..Len(recs) : RecordStart(recs, k) <= len - HeaderSize})

\* C6: UnpackVectorRead succeeds only if the i-th record of the response
\* carries the offset and the length of the i-th requested chunk; a record
\* that differs, or a record beyond the requested chunks, gives
\* InvalidResponse.
C6_RecordsMatchRequest ==
  uv.phase = "done" =>
    LET n  == Visible(uv.recs, uv.len)
        ok == /\ n <= Len(uv.list)
              /\ \A i \in 1..n :
                   /\ uv.recs[i].offset = uv.list[i].offset
                   /\ uv.recs[i].rlen = uv.list[i].length
    IN  /\ IsOK(uv.out.st) <=> ok
        /\ ~ok => uv.out.st = Status("stFatal", "errInvalidResponse")
        /\ ok => uv.out.chunks = SubSeq(uv.list, 1, n)

C6_Witness ==
  /\ uv.phase = "done"
  /\ Len(uv.list) = 2
  /\ Visible(uv.recs, uv.len) = 2
  /\ uv.recs[1].rlen = uv.list[1].length
  /\ uv.recs[1].offset = uv.list[1].offset
  /\ uv.recs[2].rlen = uv.list[2].length
  /\ uv.recs[2].offset # uv.list[2].offset
  /\ uv.out.st.code = "errInvalidResponse"

\* what sub-stream i has yet to write: the message in flight, then its queue
ToWrite(i) == stream.pSubStreams[i].msgHelper \o stream.pSubStreams[i].outQueue

C14_NoHandlerUnderStreamMutex == stream.lastCall.held = 0

\* a Send is made while sub-stream 0 is Disconnected and a stream error was
\* recorded less than the stream error window ago
SendAfterFatalError ==
  /\ stream'.lastCall.op = "Send"
  /\ stream'.time = stream.time
  /\ stream.pSubStreams[0].status = "Disconnected"
  /\ stream.pLastStreamError # 0
  /\ stream.time - stream.pLastStreamError < pStreamErrorWindow

\* no address is resolved, no connection is started, nothing is queued
NothingStarted ==
  /\ stream'.lastCall.connects = 0
  /\ stream'.pSubStreams = stream.pSubStreams
  /\ stream'.pConnectionCount = stream.pConnectionCount
  /\ stream'.pConnectionInitTime = stream.pConnectionInitTime
  /\ stream'.pAddresses = stream.pAddresses
  /\ stream'.accepted = stream.accepted

\* C15 (as stated): every Send made within the stream error window of a
\* fatal error while sub-stream 0 is Disconnected fails with a fatal
\* ConnectionError and starts nothing.
C15_EverySendFailsFast ==
  [][SendAfterFatalError
       => /\ stream'.lastCall.st = Status("stFatal", "errConnectionError")
          /\ NothingStarted]_vars

\* C15 (amended): within the stream error window of a fatal error, while
\* sub-stream 0 is Disconnected, a Send starts nothing and queues nothing;
\* it fails with a fatal ConnectionError if the message is bound to no
\* session and with InvalidSession if it is bound to one.
C15_SendFailsFast ==
  [][SendAfterFatalError
       => /\ stream'.lastCall.st =
               IF stream'.lastCall.msg[1].sessionId = 0
               THEN Status("stFatal", "errConnectionError")
               ELSE Status("stError", "errInvalidSession")
          /\ NothingStarted]_vars

C15_Witness ==
  /\ stream.lastCall.op = "Send"
  /\ stream.lastCall.msg[1].sessionId = 0
  /\ stream.lastCall.st = Status("stFatal", "errConnectionError")
  /\ stream.lastCall.connects = 0
  /\ stream.pSubStreams[0].status = "Disconnected"
  /\ stream.pLastStreamError = stream.time
  /\ stream.pConnectionCount = 0

(***************************************************************************)
(* The stream of an endpoint that cannot be reached: connections are       *)
(* started and fail, the task manager ticks, messages carry expirations    *)
(***************************************************************************)
RetryNext ==
  \/ SendTimed
  \/ OnConnectError
  \/ ForceConnect
  \/ StreamTicks
  \/ StreamClock

RetrySpec == StreamInit /\ [][RetryNext]_vars

\* the reports the call of this step made about message m
Told(m) ==
  {i \in DOMAIN stream'.lastCall.reports :
     stream'.lastCall.reports[i].msg = m}

C16_GivesUp ==
  /\ stream.lastCall.event = "FatalError"
  /\ Len(stream.lastCall.reports) = 1
  /\ stream.lastCall.reports[1].st = Status("stFatal", "errConnectionError")

(***************************************************************************)
(* Env on its own: any sequence of Put and Import calls                    *)
(***************************************************************************)
EnvInit ==
  /\ HandlersAtRest /\ stream = NewStream /\ uv = NoUnpack
  /\ iq = NewInQueue /\ env = NewEnv /\ dl = NewDeepLocate /\ sync = NoSync /\ rd = NoRead /\ lb = NoBalancer /\ rq = NoRewrite

PutString ==
  /\ \E key \in Keys, value \in PutStrings :
       env' = EnvPutString(env, key, value)
  /\ UNCHANGED <<hvars, stream, uv, iq, dl, sync, rd, lb, rq>>

PutInt ==
  /\ \E key \in Keys, value \in PutInts : env' = EnvPutInt(env, key, value)
  /\ UNCHANGED <<hvars, stream, uv, iq, dl, sync, rd, lb, rq>>

ImportInt ==
  /\ \E key \in Keys, str \in Strings : env' = EnvImportInt(env, key, str)
  /\ UNCHANGED <<hvars, stream, uv, iq, dl, sync, rd, lb, rq>>

ImportString ==
  /\ \E key \in Keys, str \in Strings :
       env' = EnvImportString(env, key, str)
  /\ UNCHANGED <<hvars, stream, uv, iq, dl, sync, rd, lb, rq>>

EnvNext == PutString \/ PutInt \/ ImportInt \/ ImportString

EnvSpec == EnvInit /\ [][EnvNext]_vars

\* what a Put on a map must do: an imported entry refuses it and nothing
\* changes, any other key takes the value as an in-process entry
PutRule(old, new, key, c, got) ==
  IF old[key].present /\ old[key].imported
  THEN ~c.ret /\ new = old
  ELSE /\ c.ret
       /\ new = [old EXCEPT ![key] = Entry(c.value, FALSE)]
       /\ got = [ret |-> TRUE, value |-> c.value]

\* C17: PutInt and PutString never change an entry imported from the shell
\* (they return false, value and flag stay); on an absent or in-process entry
\* they return true and a following Get returns the new value.  The other
\* map is left as it was.
C17_ImportedNeverOverwritten ==
  [][LET c == env'.last IN
       /\ c.op = "PutInt" =>
            /\ PutRule(env.pIntMap, env'.pIntMap, c.key, c,
                       EnvGetInt(env', c.key))
            /\ env'.pStringMap = env.pStringMap
       /\ c.op = "PutString" =>
            /\ PutRule(env.pStringMap, env'.pStringMap, c.key, c,
                       EnvGetString(env', c.key))
            /\ env'.pIntMap = env.pIntMap]_vars

C17_Witness ==
  /\ env.last.op = "PutInt"
  /\ ~env.last.ret
  /\ env.pIntMap[env.last.key] = Entry(11, TRUE)
  /\ \E k \in Keys : env.pStringMap[k] = Entry(<<"x">>, FALSE)

(***************************************************************************)
(* DeepLocate on its own: the responses of the sub-requests arrive in any  *)
(* order, from the poller thread or, failures only, from the thread of the *)
(* task manager                                                            *)
(***************************************************************************)
DeepLocateInit ==
  /\ HandlersAtRest /\ stream = NewStream /\ uv = NoUnpack
  /\ iq = NewInQueue /\ env = NewEnv /\ dl = NewDeepLocate /\ sync = NoSync /\ rd = NoRead /\ lb = NoBalancer /\ rq = NoRewrite

DeepLocateCommit(D) ==
  /\ D.deletes <= MaxLocates
  /\ Len(D.told) <= MaxLocates
  /\ dl' = D
  /\ UNCHANGED <<hvars, stream, uv, iq, env, sync, rd, lb, rq>>

ResponseArrives ==
  \E t \in Threads, st \in {StatusOK} \cup Failures, info \in Infos :
   \E D \in Use(dl) :
    /\ dl.thr[t].pc = "rest"
    /\ dl.pending > 0
    /\ t = "timer" => ~IsOK(st)
    /\ ~IsOK(st) => info = <<>>
    /\ DeepLocateCommit(DeepLocateBegin(D, t, st, info))

LocationVisited ==
  \E t \in Threads, sent \in BOOLEAN :
   \E D \in Use(dl) :
    /\ dl.thr[t].pc = "loop"
    /\ dl.thr[t].i <= Len(dl.thr[t].info)
    /\ sent => dl.issued < MaxLocates
    /\ DeepLocateCommit(DeepLocateIterate(D, t, sent))

ResponseDone ==
  \E t \in Threads :
   \E D \in Use(dl) :
    /\ dl.thr[t].pc = "loop"
    /\ dl.thr[t].i > Len(dl.thr[t].info)
    /\ DeepLocateCommit(DeepLocateFinish(D, t))

DeepLocateNext == ResponseArrives \/ LocationVisited \/ ResponseDone

DeepLocateSpec == DeepLocateInit /\ [][DeepLocateNext]_vars

\* C18: the locations the caller receives are servers only, no address
\* occurs twice among them (also when two nodes report the same server),
\* and they are empty exactly when no server was discovered.
C18_ServersOnceEach ==
  ~dl.raced =>
    \A r \in DOMAIN dl.told :
      LET locs == dl.told[r].locations IN
      /\ \A i \in DOMAIN locs : IsServer(locs[i])
      /\ \A i, j \in DOMAIN locs :
           i # j => locs[i].address # locs[j].address
      /\ locs = <<>> <=> dl.found = {}

\* C19: whatever the order and the threads in which the responses of the
\* sub-requests arrive, the caller's handler is invoked exactly once, with
\* no sub-request outstanding, and the DeepLocateHandler is destroyed once
\* and not used afterwards.
C19_ToldOnceDestroyedOnce ==
  /\ Len(dl.told) <= 1
  /\ dl.deletes <= 1
  /\ ~dl.uaf
  /\ \A r \in DOMAIN dl.told : dl.told[r].pending = 0
  /\ dl.pending = 0 /\ (\A t \in Threads : dl.thr[t] = Resting)
       => Len(dl.told) = 1

\* C20: when a locate fails with no server accumulated so far the caller
\* receives that failure status; when servers have been accumulated the
\* caller receives them with an OK status.
C20_FailurePropagated ==
  ~dl.raced /\ dl.told # <<>> /\ dl.failure # <<>> =>
    LET f == dl.failure[1]
        r == dl.told[1]
    IN  IF f.had = <<>> THEN r.st = f.st
        ELSE /\ IsOK(r.st)
             /\ Len(r.locations) >= Len(f.had)
             /\ SubSeq(r.locations, 1, Len(f.had)) = f.had

(***************************************************************************)
(* FileSystem::DirList with DirListFlags::Stat: the loop that sends one    *)
(* stat per entry of the listing, and its RequestSync.  QuotaLimit stands  *)
(* for the 1024 of the source.  RequestSync is a counter of free slots     *)
(* that WaitForQuota takes from and TaskDone gives back, and a counter of  *)
(* the requests left that WaitForAll waits for                             *)
(***************************************************************************)
MaxListing == 5
QuotaLimit == 2

Min(a, b) == IF a <= b THEN a ELSE b

\* RequestSync sync( response->GetSize(), quota ), before the loop
NewSync(size) ==
  [pc |-> IF size = 0 THEN "WaitForAll" ELSE "Stat", size |-> size, i |-> 0,
   quota |-> Min(size, QuotaLimit), pQuota |-> Min(size, QuotaLimit),
   pRequestsLeft |-> size, pFailureCounter |-> 0, outstanding |-> 0]

\* RequestSync::TaskDone
TaskDone(Y, success) ==
  [Y EXCEPT !.pFailureCounter = IF success THEN @ ELSE @ + 1,
            !.pRequestsLeft = @ - 1,
            !.pQuota = @ + 1]

DirListInit ==
  /\ HandlersAtRest /\ stream = NewStream /\ uv = NoUnpack
  /\ iq = NewInQueue /\ env = NewEnv /\ dl = NewDeepLocate /\ rd = NoRead /\ lb = NoBalancer /\ rq = NoRewrite
  /\ \E size \in 0..MaxListing : sync = NewSync(size)

\* the body of the loop up to WaitForQuota: the stat is sent, or it is not
\* and the task is done with a failure
StatSent ==
  /\ sync.pc = "Stat"
  /\ \E sent \in BOOLEAN :
       sync' = IF sent
               THEN [sync EXCEPT !.outstanding = @ + 1,
                                 !.pc = "WaitForQuota"]
               ELSE [TaskDone(sync, FALSE) EXCEPT !.pc = "WaitForQuota"]
  /\ UNCHANGED <<hvars, stream, uv, iq, env, dl, rd, lb, rq>>

\* RequestSync::WaitForQuota returns, and ++i
QuotaGranted ==
  /\ sync.pc = "WaitForQuota"
  /\ sync.pQuota > 0
  /\ sync' = [sync EXCEPT !.pQuota = @ - 1, !.i = @ + 1,
                          !.pc = IF sync.i + 1 < sync.size THEN "Stat"
                                 ELSE "WaitForAll"]
  /\ UNCHANGED <<hvars, stream, uv, iq, env, dl, rd, lb, rq>>

\* DirListStatHandler::HandleResponse, on another thread
StatAnswered ==
  /\ sync.outstanding > 0
  /\ \E success \in BOOLEAN :
       sync' = [TaskDone(sync, success) EXCEPT !.outstanding = @ - 1]
  /\ UNCHANGED <<hvars, stream, uv, iq, env, dl, rd, lb, rq>>

\* RequestSync::WaitForAll returns
AllDone ==
  /\ sync.pc = "WaitForAll"
  /\ sync.pRequestsLeft = 0
  /\ sync' = [sync EXCEPT !.pc = "done"]
  /\ UNCHANGED <<hvars, stream, uv, iq, env, dl, rd, lb, rq>>

DirListNext == StatSent \/ QuotaGranted \/ StatAnswered \/ AllDone

DirListSpec == DirListInit /\ [][DirListNext]_vars

\* C21: the stat requests sent and not yet answered never number more than
\* 1024 (QuotaLimit here), nor more than the quota given to RequestSync.
C21_OutstandingWithinQuota ==
  /\ sync.outstanding <= QuotaLimit
  /\ sync.outstanding <= sync.quota

(***************************************************************************)
(* XRootDMsgHandler::ParseResponse for kXR_read: the chunk the caller      *)
(* asked for, the partial responses and the final one, the caller's buffer *)
(***************************************************************************)
MaxChunkLength == 3
MaxBody == 2
MaxHops == 2

MaxReadPartials == 2

ReadBodies == UNION {[1..n -> {1, 2}] : n \in 0..MaxBody}

TooSmall_Never(info, length) == FALSE

\* if( info.length < length )
TooSmall(info, length) == info.length < length

\* memcpy( info.buffer, buffer, length )
Memcpy(dest, source, length) ==
  [i \in DOMAIN dest |-> IF i <= length THEN source[i] ELSE dest[i]]

\* case kXR_read of ParseResponse: body is the glued response, info the
\* front of pChunkList, buffer what info.buffer points to
ParseRead(body, info, buffer) ==
  IF TooSmall(info, Len(body))
  THEN [st |-> Status("stError", "errInvalidResponse"), buffer |-> buffer,
        chunk |-> <<>>]
  ELSE [st |-> StatusOK, buffer |-> Memcpy(buffer, body, Len(body)),
        chunk |-> <<[offset |-> info.offset, length |-> Len(body)]>>]

ReadInit ==
  /\ HandlersAtRest /\ stream = NewStream /\ uv = NoUnpack
  /\ iq = NewInQueue /\ env = NewEnv /\ dl = NewDeepLocate /\ sync = NoSync
  /\ lb = NoBalancer /\ rq = NoRewrite
  /\ \E length \in 0..MaxChunkLength, final \in ReadBodies,
        parts \in UNION {[1..n -> ReadBodies] : n \in 0..MaxReadPartials} :
       rd = [phase |-> "received",
             info |-> [offset |-> 0, length |-> length],
             pPartialResps |-> [i \in DOMAIN parts |-> [body |-> parts[i]]],
             pResponse |-> [body |-> final],
             buffer |-> [i \in 1..length |-> 0],
             st |-> StatusOK, chunk |-> <<>>]

ReadParsed ==
  /\ rd.phase = "received"
  /\ LET r == ParseRead(ResponseBody(rd), rd.info, rd.buffer)
     IN  rd' = [rd EXCEPT !.phase = "parsed", !.st = r.st,
                          !.buffer = r.buffer, !.chunk = r.chunk]
  /\ UNCHANGED <<hvars, stream, uv, iq, env, dl, sync, lb, rq>>

ReadSpec == ReadInit /\ [][ReadParsed]_vars

\* the bytes the server returned: all partial responses and the final one
TotalReturned ==
  PartialsLength(rd.pPartialResps, 1) + Len(rd.pResponse.body)

\* C23: when the server returned, in partial responses and the final one
\* together, more bytes than the chunk is long, decoding fails with
\* InvalidResponse and the caller's buffer is as it was.
C23_LongReadRejected ==
  rd.phase = "parsed" /\ TotalReturned > rd.info.length =>
    /\ rd.st = Status("stError", "errInvalidResponse")
    /\ rd.buffer = [i \in 1..rd.info.length |-> 0]

C23_Witness ==
  /\ rd.phase = "parsed"
  /\ Len(rd.pPartialResps) = 2
  /\ rd.info.length = 2
  /\ TotalReturned = 3
  /\ Len(rd.pResponse.body) = 1
  /\ rd.st.code = "errInvalidResponse"

(***************************************************************************)
(* The in-queue on its own                                                 *)
(***************************************************************************)
InQueueInit ==
  HandlersAtRest /\ stream = NewStream /\ uv = NoUnpack /\ iq = NewInQueue /\ env = NewEnv /\ dl = NewDeepLocate /\ sync = NoSync /\ rd = NoRead /\ lb = NoBalancer /\ rq = NoRewrite

\* Stream::OnIncoming hands the next message to the in-queue
MessageArrives ==
  /\ iq.arrived < MaxMessages
  /\ \E act \in [1..MaxMsgHandlers -> Actions] :
       iq' = Expirations(InQueueAddMessage(iq, iq.arrived + 1, act), 0, 0)
  /\ UNCHANGED <<hvars, stream, uv, env, dl, sync, rd, lb, rq>>

\* PostMaster::Receive registers a handler that is not in the queue
HandlerRegisters ==
  /\ \E handler \in 1..MaxMsgHandlers, act \in [1..MaxMessages -> Actions],
        expires \in 1..MaxExpires :
       /\ \A i \in 1..Len(iq.pHandlers) : iq.pHandlers[i] # handler
       /\ iq' = Expirations(InQueueAddMessageHandler(iq, handler, act),
                            handler, expires)
  /\ UNCHANGED <<hvars, stream, uv, env, dl, sync, rd, lb, rq>>

\* Stream::Tick, or any caller, reports the timeouts to the in-queue
TimeoutReported ==
  /\ \E nowArg \in 0..MaxExpires, time \in 1..MaxExpires :
       iq' = InQueueReportTimeout(iq, nowArg, time)
  /\ UNCHANGED <<hvars, stream, uv, env, dl, sync, rd, lb, rq>>

InQueueNext == MessageArrives \/ HandlerRegisters \/ TimeoutReported

InQueueSpec == InQueueInit /\ [][InQueueNext]_vars

\* C12: messages retained in the in-queue because no handler took them are
\* offered to a handler registered afterwards in the order they arrived.
C12_RetainedInArrivalOrder ==
  \A i, j \in 1..Len(iq.offered) :
    i < j => iq.offered[i] < iq.offered[j]

\* C24: AddMessage calls the registered handlers in registration order and
\* stops at the first whose action contains Take; the message is retained
\* in the message list exactly when no handler took it.
C24_OfferedUntilTaken ==
  [][iq'.arrived = iq.arrived + 1 =>
       LET called == iq'.called
           n      == Len(called)
           took   == \E k \in 1..n : called[k].action.take
       IN  /\ n <= Len(iq.pHandlers)
           /\ \A k \in 1..n : called[k].handler = iq.pHandlers[k]
           /\ \A k \in 1..(n - 1) : ~called[k].action.take
           /\ n < Len(iq.pHandlers) => called[n].action.take
           /\ (\E i \in DOMAIN iq'.pMessages :
                 iq'.pMessages[i] = iq'.arrived) <=> ~took
           /\ Len(iq'.pMessages) = Len(iq.pMessages) + IF took THEN 0 ELSE 1
     ]_vars

\* the first of two handlers took the message and the second was not called
C24_Witness ==
  /\ Len(iq.called) = 1
  /\ iq.called[1].action.take
  /\ Len(iq.pHandlers) = 2
  /\ iq.pHandlers[1] = iq.called[1].handler
  /\ \A i \in DOMAIN iq.pMessages : iq.pMessages[i] # iq.arrived

(***************************************************************************)
(* kXR_wait: the step that registers a wait task for a handler is the      *)
(* delivery of a kXR_wait response to it                                   *)
(***************************************************************************)
Suspended == {t.handler : t \in waitTasks' \ waitTasks}

\* C25: on a kXR_wait response the handler's OnIncoming returns Take
\* without RemoveHandler: the handler is still registered in the in-queue
\* of its channel once the wait task has been registered
C25_StaysRegisteredDuringWait ==
  [][\A h \in Suspended : \E c \in Hosts : \E i \in 1..Len(inQ'[c]) :
       inQ'[c][i] = h]_vars

(***************************************************************************)
(* The load-balancer of one request on its own: the owner may name one     *)
(* with SetLoadBalancer before the request is sent, then the request is    *)
(* redirected from host to host.  flags gives the server flags the         *)
(* transport reports for each host.                                        *)
(***************************************************************************)
FlagSets == {{"kXR_isServer"}, {"kXR_isManager"},
             {"kXR_isManager", "kXR_attrMeta"}}

BalancerInit ==
  /\ HandlersAtRest /\ stream = NewStream /\ uv = NoUnpack
  /\ iq = NewInQueue /\ env = NewEnv /\ dl = NewDeepLocate /\ sync = NoSync
  /\ rd = NoRead /\ rq = NoRewrite
  /\ \E url \in Hosts, f \in [Hosts -> FlagSets] :
       lb = [phase |-> "new", flags |-> f, pUrl |-> url,
             pLoadBalancer |-> NoHost, pHasLoadBalancer |-> FALSE,
             pHosts |-> <<HostInfo(url)>>, redirects |-> 0]

BalancerSet ==
  /\ lb.phase = "new"
  /\ \E loadBalancer \in Hosts \cup {NoHost} :
       lb' = [SetLoadBalancer(lb, loadBalancer) EXCEPT !.phase = "sent"]
  /\ UNCHANGED <<hvars, stream, uv, iq, env, dl, sync, rd, rq>>

\* kXR_redirect from the current host to another: the load-balancer is
\* settled, the new host is appended by OnIncoming and by RetryAtServer
Redirected ==
  /\ lb.phase \in {"new", "sent"}
  /\ lb.redirects < MaxHops
  /\ \E to \in Hosts :
       LET promote == Promoted(lb, lb.flags[lb.pUrl])
           hosts1  == IF promote THEN FlagLast(lb.pHosts) ELSE lb.pHosts
       IN  lb' = [lb EXCEPT
                    !.phase = "sent",
                    !.pLoadBalancer =
                       IF promote THEN lb.pHosts[Len(lb.pHosts)].url ELSE @,
                    !.pHosts = hosts1 \o <<HostInfo(to), HostInfo(to)>>,
                    !.pUrl = to,
                    !.redirects = @ + 1]
  /\ UNCHANGED <<hvars, stream, uv, iq, env, dl, sync, rd, rq>>

BalancerNext == BalancerSet \/ Redirected

BalancerSpec == BalancerInit /\ [][BalancerNext]_vars

Flagged(hosts) == {i \in 1..Len(hosts) : hosts[i].loadBalancer}

\* the current host is a manager, and a meta manager or the first remembered
ManagerRedirects ==
  /\ lb'.redirects = lb.redirects + 1
  /\ "kXR_isManager" \in lb.flags[lb.pUrl]
  /\ ("kXR_attrMeta" \in lb.flags[lb.pUrl] \/ lb.pLoadBalancer = NoHost)

BecomesLoadBalancer ==
  /\ lb'.pLoadBalancer = lb.pUrl
  /\ Flagged(lb'.pHosts) = {Len(lb.pHosts)}
  /\ lb'.pHosts[Len(lb.pHosts)].url = lb.pUrl

Unsent(i) ==
  stream.pSubStreams[i].msgHelper \o stream.pSubStreams[i].outQueue

RECURSIVE UnsentFrom(_)
UnsentFrom(i) ==
  IF i >= Size(stream) THEN <<>> ELSE Unsent(i) \o UnsentFrom(i + 1)

\* what is queued when the error comes: the in-flight message of sub-stream
\* 0, its queue, the queues of the other sub-streams
QueuedAtError == Unsent(0) \o AllQueued(stream, 1)

ToldOnce(m, status) ==
  Cardinality({k \in 1..Len(stream'.lastCall.reports) :
                 stream'.lastCall.reports[k].msg = m}) = 1
  /\ \E k \in 1..Len(stream'.lastCall.reports) :
       stream'.lastCall.reports[k] = [msg |-> m, st |-> status]

Range(q) == {q[k] : k \in 1..Len(q)}

ReconnectStarted == stream'.pSubStreams[0].status = "Connecting"

SessionLost ==
  /\ stream'.lastCall.op = "OnError" /\ stream'.time = stream.time
  /\ OnErrorAt(0)

\* C27 as stated: after OnError on sub-stream 0 no stateful entry is in any
\* out queue or in-flight slot and each was told the error once; every
\* stateless entry is still queued in order, the in-flight one at the
\* front; a reconnect is started iff a stateless entry is queued
C27_SessionLostAlwaysRecovered ==
  [][SessionLost =>
       /\ \A i \in DOMAIN stream'.pSubStreams :
            /\ Stateful(stream'.pSubStreams[i].outQueue) = <<>>
            /\ Stateful(stream'.pSubStreams[i].msgHelper) = <<>>
       /\ \A m \in Range(Stateful(UnsentFrom(0))) : ToldOnce(m, SocketError)
       /\ \A i \in DOMAIN stream.pSubStreams :
            stream'.pSubStreams[i].outQueue =
              Stateless(IF i = 0 THEN Unsent(0)
                        ELSE stream.pSubStreams[i].outQueue)
       /\ ReconnectStarted <=> Stateless(QueuedAtError) # <<>>]_vars

\* C27: after OnError on sub-stream 0 that does not end in a fatal error,
\* no stateful entry is in any out queue or in the in-flight slot of
\* sub-stream 0, and exactly the stateful entries queued were told the error,
\* once each; every stateless entry is still queued in order, the in-flight
\* one of sub-stream 0 at the front; a reconnect is started iff a stateless
\* entry is queued.  It ends in a fatal error only when a stateless entry is
\* queued and the reconnect fails, and then every queue is empty and every
\* entry was told a fatal status once
C27_SessionLostRecovered ==
  [][SessionLost =>
       IF stream'.lastCall.event = "FatalError"
       THEN /\ Stateless(QueuedAtError) # <<>>
            /\ ~ReconnectStarted
            /\ AllQueued(stream', 0) = <<>>
            /\ Len(stream'.lastCall.reports) = Len(QueuedAtError)
            /\ \A m \in Range(QueuedAtError) :
                 \E st \in {stream'.lastCall.reports[k].st :
                              k \in 1..Len(stream'.lastCall.reports)} :
                   IsFatal(st) /\ ToldOnce(m, st)
       ELSE /\ stream'.lastCall.event = "Broken"
            /\ stream'.pSubStreams[0].msgHelper = <<>>
            /\ stream'.lastCall.reports =
                 Reports(Stateful(QueuedAtError), SocketError)
            /\ \A i \in DOMAIN stream.pSubStreams :
                 stream'.pSubStreams[i].outQueue =
                   Stateless(IF i = 0 THEN Unsent(0)
                             ELSE stream.pSubStreams[i].outQueue)
            /\ ReconnectStarted <=> Stateless(QueuedAtError) # <<>>]_vars

\* the session was lost with a stateful and a stateless message queued: the
\* first was told the error, the second waits for the new connection
C27_Witness ==
  /\ stream.lastCall.op = "OnError" /\ stream.lastCall.event = "Broken"
  /\ stream.pSubStreams[0].status = "Connecting"
  /\ stream.lastCall.msg # <<>>
  /\ Len(stream.lastCall.reports) = 1
  /\ stream.lastCall.reports[1].msg.stateful
  /\ Len(stream.pSubStreams[0].outQueue) = 1
  /\ stream.pSubStreams[0].outQueue = stream.lastCall.msg

(***************************************************************************)
(* Stream::OnError on an auxiliary sub-stream                              *)
(***************************************************************************)
\* an error on sub-stream i > 0 that has something to send
AuxiliaryLost(i) ==
  /\ i > 0 /\ Unsent(i) # <<>>
  /\ stream'.lastCall.op = "OnError" /\ stream'.time = stream.time
  /\ OnErrorAt(i)

MovedToMain(i) ==
  /\ stream'.pSubStreams[0].outQueue =
       stream.pSubStreams[0].outQueue \o Unsent(i)
  /\ stream'.pSubStreams[i].outQueue = <<>>
  /\ stream'.pSubStreams[i].msgHelper = <<>>
  /\ stream'.lastCall.reports = <<>>

\* C28: an error on an auxiliary sub-stream with a non-empty out queue while
\* sub-stream 0 is Connecting moves its messages, the in-flight one first,
\* to the end of the queue of sub-stream 0 and notifies no handler
C28_MovedWhileConnecting ==
  [][\A i \in DOMAIN stream.pSubStreams :
       AuxiliaryLost(i) /\ stream.pSubStreams[0].status = "Connecting"
         => MovedToMain(i)]_vars

(***************************************************************************)
(* Stream::OnFatalError                                                    *)
(***************************************************************************)
\* a call that ended in OnFatalError
FatalErrorStep ==
  /\ stream'.lastCall.event = "FatalError"
  /\ stream'.time = stream.time
  /\ stream' # stream

FatalReports(m) ==
  {k \in 1..Len(stream'.lastCall.reports) :
     /\ stream'.lastCall.reports[k].msg = m
     /\ IsFatal(stream'.lastCall.reports[k].st)}

\* C29: after OnFatalError every out queue is empty, each handler that had
\* a queued message was notified exactly once and with a fatal status, the
\* in-queue was told FatalError and pLastStreamError holds the time
C29_FatalErrorDrains ==
  [][FatalErrorStep =>
       /\ AllQueued(stream', 0) = <<>>
       /\ \A m \in Range(AllQueued(stream, 0)) :
            /\ Cardinality(FatalReports(m)) = 1
            /\ Cardinality({k \in 1..Len(stream'.lastCall.reports) :
                              stream'.lastCall.reports[k].msg = m}) = 1
       /\ \A k \in 1..Len(stream'.lastCall.reports) :
            IsFatal(stream'.lastCall.reports[k].st)
       /\ stream'.pLastStreamError = stream.time]_vars

\* a fatal error with two messages queued, reported by a socket error
C29_Witness ==
  /\ stream.lastCall.event = "FatalError" /\ stream.lastCall.op = "OnError"
  /\ Len(stream.lastCall.reports) = 2
  /\ AllQueued(stream, 0) = <<>>
  /\ stream.pLastStreamError = stream.time

(***************************************************************************)
(* The connection counter                                                  *)
(***************************************************************************)
\* C30: pConnectionCount never exceeds pConnectionRetry, whatever the
\* sequence of Send, ForceConnect, OnConnectError and OnError
C30_CountWithinRetry == stream.pConnectionCount <= pConnectionRetry

(***************************************************************************)
(* The fate of a request.  The clock does not stop at MaxTime: once every  *)
(* expiration has passed, a second more shows only in the wait tasks,      *)
(* which come a second nearer, and in the tick, which is due again.  The   *)
(* poller (ReadyToWrite, MessageSent), the task manager (the wait tasks,   *)
(* the tick) and the clock are fair; the server and the network are not.   *)
(***************************************************************************)
LiveInit ==
  /\ Requests(TRUE)
  /\ others = {}
  /\ \A h \in Handlers : hd[h].sessionId = 0 /\ ~hd[h].pRedirectAsAnswer

LateClock ==
  /\ now = MaxTime
  /\ waitTasks' = {[t EXCEPT !.at = IF @ > MaxTime THEN @ - 1 ELSE @] :
                     t \in waitTasks}
  /\ swept' = FALSE
  /\ UNCHANGED <<hd, outQ, inFlight, inQ, sidUsed, sidTimedOut, now, calls,
                 result, uaf, hist, others, stream, uv, iq, env, dl, sync,
                 rd, lb, rq>>

LiveNext ==
  \/ \E c \in Hosts : ReadyToWrite(c)
  \/ \E c \in Hosts : MessageSent(c)
  \/ \E c \in Hosts : Incoming(c)
  \/ \E c \in Hosts : StreamError(c)
  \/ \E c \in Hosts : StreamFatalError(c)
  \/ Tick
  \/ \E h \in Handlers : RunWaitTask(h)
  \/ AdvanceTime
  \/ LateClock

LiveSpec ==
  /\ LiveInit /\ [][LiveNext]_vars
  /\ WF_vars(AdvanceTime) /\ WF_vars(LateClock) /\ WF_vars(Tick)
  /\ \A h \in Handlers : WF_vars(RunWaitTask(h))
  /\ \A c \in Hosts : WF_vars(ReadyToWrite(c)) /\ WF_vars(MessageSent(c))

\* C22: every request eventually gets its terminal notification
C22_EventuallyNotified == \A h \in Handlers : <>(calls[h] > 0)

(***************************************************************************)
(* The session id of a stream                                              *)
(***************************************************************************)
SessionEstablished ==
  /\ stream'.lastCall.op = "OnConnect" /\ stream'.time = stream.time
  /\ OnConnectAt(0)

ErrorStatuses ==
  {Status(st, code) :
     st \in {"stError", "stFatal"},
     code \in {"errOperationExpired", "errSocketError", "errSocketTimeout",
               "errConnectionError", "errInvalidSession"}}

\* the world w2 after the call: the caller has the status, nothing was sent
Surfaced(w2, h, status) ==
  /\ ~w2.hd[h].alive
  /\ w2.calls[h] = calls[h] + 1
  /\ w2.result[h].status = status
  /\ w2.outQ = outQ /\ w2.inFlight = inFlight
  /\ w2.hist[h].sent = hist[h].sent
  /\ w2.hd[h].pHosts = hd[h].pHosts
  /\ w2.hd[h].pUrl = hd[h].pUrl

\* C32: HandleError with an error that is not a server error response,
\* when its code is OperationExpired, or the request is bound to a session,
\* or the expiration has passed, gives the caller the status passed in and
\* sends the request to no host
C32_SurfacedWithoutResend ==
  \A h \in Handlers, status \in ErrorStatuses, sr \in SendStates :
    /\ hd[h].alive
    /\ \/ status.code = "errOperationExpired"
       \/ hd[h].sessionId # 0
       \/ now >= hd[h].pExpiration
    => Surfaced(HandleError(World(sr, 1), h, status), h, status)

\* a request bound to a session was ended by a socket error at once, before
\* its expiration, having been sent to one host only
C32_Witness ==
  \E h \in Handlers :
    /\ Terminated(h)
    /\ hd[h].sessionId # 0
    /\ now < hd[h].pExpiration
    /\ result[h].status = Status("stError", "errSocketError")
    /\ Len(hist[h].sent) = 1

(***************************************************************************)
(* InQueue::ReportTimeout                                                  *)
(***************************************************************************)
TimeoutStep == iq'.timeouts # NoTimeouts

Expiring(t) == SelectSeq(iq.pHandlers, LAMBDA k : iq.expires[k] <= t)

Lasting(t) == SelectSeq(iq.pHandlers, LAMBDA k : iq.expires[k] > t)

TimedOutAt(t) ==
  /\ iq'.pHandlers = Lasting(t)
  /\ Len(iq'.timeouts.told) = Len(Expiring(t))
  /\ \A i \in 1..Len(Expiring(t)) :
       iq'.timeouts.told[i] =
         [handler |-> Expiring(t)[i], event |-> "Timeout", streamNum |-> 0,
          status |-> Status("stError", "errOperationExpired")]
  /\ \A k \in Range(iq'.pHandlers) : iq'.expires[k] = iq.expires[k]

\* C33 as stated: ReportTimeout(now) removes exactly the handlers whose
\* expiration is <= now, whatever now is
C33_TimedOutAtArgument ==
  [][TimeoutStep => TimedOutAt(iq'.timeouts.now)]_vars

\* C33: ReportTimeout(now), where a now of 0 stands for the current time,
\* removes exactly the handlers whose expiration is <= that time, delivers
\* to each one Timeout event with status OperationExpired, and leaves the
\* others registered in the same order, not called
C33_TimedOut ==
  [][TimeoutStep =>
       TimedOutAt(IF iq'.timeouts.now = 0 THEN iq'.timeouts.time
                  ELSE iq'.timeouts.now)]_vars

\* one of two registered handlers was timed out, the later one stays
C33_Witness ==
  /\ Len(iq.timeouts.told) = 1
  /\ Len(iq.pHandlers) = 1
  /\ iq.timeouts.now # 0
  /\ iq.expires[iq.pHandlers[1]] > iq.timeouts.now

(***************************************************************************)
(* The request message: XRootDMsgHandler::RewriteRequestWait and           *)
(* SwitchOnRefreshFlag on the bytes of the request                         *)
(***************************************************************************)
kXR_refresh == 128

RequestIds == {"kXR_locate", "kXR_open", "kXR_stat"}

\* values of a 16-bit field: nothing, another bit, kXR_refresh, both
FieldValues == {0, 16, kXR_refresh, kXR_refresh + 16}

StreamIds == {1, 258}

Payloads == {<<"/a">>, <<"/b", "c">>}

Swap16(x) == (x % 256) * 256 + (x \div 256)

Swap32(x) == Swap16(x % 65536) * 65536 + Swap16(x \div 65536)

HasBit(x, bit) == (x \div bit) % 2 = 1

\* x &= ~bit on 16 bits
ClearBit(x, bit) == IF HasBit(x, bit) THEN x - bit ELSE x

\* x |= bit on 16 bits
SetBit(x, bit) == IF HasBit(x, bit) THEN x ELSE x + bit

\* The 24 bytes of a request header as ClientRequest lays them out:
\* streamid[2], requestid at byte 2, the request-specific body from byte 4
\* (body[1] is the 16-bit word at byte 4, body[2] the one at byte 6), dlen
\* at byte 20.  ClientLocateRequest has options at byte 4;
\* ClientOpenRequest has mode at byte 4 and options at byte 6.
\* XRootDTransport::MarshallRequest puts the 16-bit fields of the request
\* type and dlen into network byte order; streamid is a byte array
MarshallRequest(req) ==
  [req EXCEPT
     !.body = IF req.requestid = "kXR_open"
              THEN <<Swap16(@[1]), Swap16(@[2])>>
              ELSE IF req.requestid = "kXR_locate"
              THEN <<Swap16(@[1]), @[2]>>
              ELSE @,
     !.dlen = Swap32(@)]

\* the byte swaps are their own inverse
UnMarshallRequest(req) == MarshallRequest(req)

\* req->locate.options: the 16-bit word at byte 4 of the header
RefreshOff_OwnOptions(req) ==
  [req EXCEPT !.body[IF req.requestid = "kXR_open" THEN 2 ELSE 1] =
                ClearBit(@, kXR_refresh)]

RefreshOff(req) == [req EXCEPT !.body[1] = ClearBit(@, kXR_refresh)]

\* XRootDMsgHandler::RewriteRequestWait on the marshalled request
RewriteRequestWaitOn(req) ==
  LET r == UnMarshallRequest(req)
  IN  MarshallRequest(IF r.requestid \in {"kXR_locate", "kXR_open"}
                      THEN RefreshOff(r) ELSE r)

\* XRootDMsgHandler::SwitchOnRefreshFlag on the marshalled request
SwitchOnRefreshFlag(req) ==
  LET r == UnMarshallRequest(req)
  IN  MarshallRequest(IF r.requestid \in {"kXR_locate", "kXR_open"}
                      THEN [r EXCEPT !.body[1] = SetBit(@, kXR_refresh)]
                      ELSE r)

RewriteInit ==
  /\ HandlersAtRest /\ stream = NewStream /\ uv = NoUnpack
  /\ iq = NewInQueue /\ env = NewEnv /\ dl = NewDeepLocate /\ sync = NoSync
  /\ rd = NoRead /\ lb = NoBalancer
  /\ \E id \in RequestIds, sid \in StreamIds, w1 \in FieldValues,
        w2 \in FieldValues, payload \in Payloads :
       rq = [phase |-> "sent", waits |-> 0,
             req |-> MarshallRequest([streamid |-> sid, requestid |-> id,
                                      body |-> <<w1, w2>>,
                                      dlen |-> Len(payload),
                                      payload |-> payload])]

\* kXR_error with kXR_NotFound away from the load balancer
RefreshSwitchedOn ==
  /\ rq.phase = "sent"
  /\ rq' = [rq EXCEPT !.phase = "refreshed",
                      !.req = SwitchOnRefreshFlag(@)]
  /\ UNCHANGED <<hvars, stream, uv, iq, env, dl, sync, rd, lb>>

\* kXR_wait: the request is rewritten before it is sent again
WaitRewritten ==
  /\ rq.phase \in {"sent", "refreshed", "rewritten"}
  /\ rq.waits < MaxWaits
  /\ rq' = [rq EXCEPT !.phase = "rewritten", !.waits = @ + 1,
                      !.req = RewriteRequestWaitOn(@)]
  /\ UNCHANGED <<hvars, stream, uv, iq, env, dl, sync, rd, lb>>

RewriteNext == RefreshSwitchedOn \/ WaitRewritten

RewriteSpec == RewriteInit /\ [][RewriteNext]_vars

\* the fields of the request as the server reads them
OnWire(req) == UnMarshallRequest(req)

OwnOptions(req) ==
  IF req.requestid = "kXR_open" THEN OnWire(req).body[2]
  ELSE OnWire(req).body[1]

\* C34: when a locate or an open request is re-issued after kXR_wait, the
\* refresh bit of its own options field is cleared and every other field
\* is unchanged; every other request is unchanged
C34_RefreshClearedOnly ==
  [][rq'.waits = rq.waits + 1 =>
       IF rq.req.requestid \in {"kXR_locate", "kXR_open"}
       THEN /\ ~HasBit(OwnOptions(rq'.req), kXR_refresh)
            /\ OnWire(rq'.req) = RefreshOff_OwnOptions(OnWire(rq.req))
       ELSE rq'.req = rq.req]_vars

\* what the code does: the word at byte 4 loses the bit, for open too
C34_WordAtByte4Cleared ==
  [][rq'.waits = rq.waits + 1 =>
       IF rq.req.requestid \in {"kXR_locate", "kXR_open"}
       THEN OnWire(rq'.req) = RefreshOff(OnWire(rq.req))
       ELSE rq'.req = rq.req]_vars

\* an open request whose options asked for a refresh was re-issued
C34_OpenReissued ==
  /\ rq.phase = "rewritten"
  /\ rq.req.requestid = "kXR_open"
  /\ HasBit(OwnOptions(rq.req), kXR_refresh)

(***************************************************************************)
(* The stream ids a handler gives back                                     *)
(***************************************************************************)
\* C35: every stream id a handler releases or quarantines is one it holds,
\* handed to the SID manager that allocated it, at most once per
\* allocation, on the failure paths of RewriteRequestRedirect too
C35_OnlyHeldStreamIdsGivenBack ==
  \A h \in Handlers : hist[h].stray = {}

(***************************************************************************)
(* Partial responses over several attempts                                 *)
(***************************************************************************)
\* C36: when a request that has accumulated kXR_oksofar responses is sent
\* again, the partial responses of the abandoned attempt are discarded: the
\* body decoded in the end is made of the frames of the attempt that ended
\* with kXR_ok, and of no others
C36_OnlyLastAttemptDecoded ==
  \A h \in Handlers :
    Terminated(h) /\ result[h].response.kind = "BinaryDataInfo"
      => result[h].response.body = Flatten(hist[h].attempt)

(***************************************************************************)
(* The bytes UnpackVectorRead reads                                        *)
(***************************************************************************)
\* where the data of the i-th chunk copied ends in the body: the memcpy of
\* line 914 reads rlen bytes from cursorSource + 16
RECURSIVE DataEnd(_, _)
DataEnd(chunks, i) ==
  IF i = 0 THEN 0
  ELSE DataEnd(chunks, i - 1) + HeaderSize + chunks[i].length

\* C37: UnpackVectorRead never reads the body at or beyond
\* sourceBufferSize: the header and the data of every record it copies lie
\* inside the body, and a body whose last record is cut short is rejected
C37_ReadsWithinBody ==
  uv.phase = "done" =>
    /\ \A i \in 1..Len(uv.out.chunks) : DataEnd(uv.out.chunks, i) <= uv.len
    /\ (/\ uv.recs # <<>> /\ uv.len < BodySize(uv.recs)
        /\ uv.len >= RecordStart(uv.recs, Len(uv.recs)) + HeaderSize)
         => ~IsOK(uv.out.st)

\* the headers of the records it looks at do lie inside the body
C37_HeadersWithinBody ==
  uv.phase = "done" =>
    \A i \in 1..Len(uv.out.chunks) :
      DataEnd(uv.out.chunks, i) - uv.out.chunks[i].length <= uv.len

(***************************************************************************)
(* Where the messages of a stream are                                      *)
(***************************************************************************)
RECURSIVE AllInFlight(_, _)
AllInFlight(S, i) ==
  IF i >= Size(S) THEN <<>>
  ELSE S.pSubStreams[i].msgHelper \o AllInFlight(S, i + 1)

\* the messages the stream holds: in an out queue or in an in-flight slot
Held(S) == AllQueued(S, 0) \o AllInFlight(S, 0)

SeqsOf(q) == {q[k].seq : k \in 1..Len(q)}

ReportedBy(call) == [k \in 1..Len(call.reports) |-> call.reports[k].msg]

SendStep == stream'.lastCall.op = "Send" /\ stream'.time = stream.time

\* C39: Stream::Send and EnableLink only access sub-streams that exist,
\* whatever PathID the transport answers and whatever the connection
\* state, and a message accepted ends up in the out queue of an existing
\* sub-stream
C39_OnlyExistingSubStreams ==
  [][SendStep =>
       /\ ~stream'.lastCall.oob
       /\ stream'.accepted = stream.accepted + 1 =>
            \E i \in DOMAIN stream'.pSubStreams :
              \E k \in 1..Len(stream'.pSubStreams[i].outQueue) :
                stream'.pSubStreams[i].outQueue[k].seq = stream'.accepted]_vars

\* the part that holds: path.up is brought into the list and the message
\* is queued on a sub-stream that exists
C39_QueuedOnExistingSubStream ==
  [][SendStep /\ stream'.accepted = stream.accepted + 1 =>
       \E i \in DOMAIN stream'.pSubStreams :
         /\ Len(stream'.pSubStreams[i].outQueue) >= 1
         /\ stream'.pSubStreams[i].outQueue[
              Len(stream'.pSubStreams[i].outQueue)].seq = stream'.accepted
         /\ DOMAIN stream'.pSubStreams = DOMAIN stream.pSubStreams]_vars

(***************************************************************************)
(* Env used by several threads.  XrdSysRWLockHelper( pLock, false ); is an *)
(* unnamed temporary: it is gone at the end of its own statement, so the   *)
(* statements of PutInt after it run with the lock released and those of   *)
(* two calls interleave                                                    *)
(***************************************************************************)
Idle == [pc |-> "idle", key |-> "k1", value |-> 0]

\* the Env of EnvSpec and where each thread is in its call
RaceInit ==
  /\ HandlersAtRest /\ stream = NewStream /\ uv = NoUnpack
  /\ iq = NewInQueue /\ dl = NewDeepLocate /\ sync = NoSync
  /\ rd = NoRead /\ lb = NoBalancer /\ rq = NoRewrite
  /\ env = [pIntMap |-> NewEnv.pIntMap, pStringMap |-> NewEnv.pStringMap,
            last |-> NewEnv.last, thr |-> [t \in Threads |-> Idle]]

\* PutInt up to it = pIntMap.find( key ) and the test it == pIntMap.end()
PutIntFinds(t) ==
  /\ env.thr[t].pc = "idle"
  /\ \E key \in Keys, value \in PutInts :
       env' = [env EXCEPT !.thr[t] =
                 [pc |-> IF env.pIntMap[key].present THEN "found"
                         ELSE "absent",
                  key |-> key, value |-> value]]
  /\ UNCHANGED <<hvars, stream, uv, iq, dl, sync, rd, lb, rq>>

\* PutInt: if( it->second.second ) return false
PutIntTests(t) ==
  /\ env.thr[t].pc = "found"
  /\ env' = IF Imported(env.pIntMap[env.thr[t].key])
            THEN [EnvCall(env, "PutInt", env.thr[t].key, env.thr[t].value,
                          FALSE) EXCEPT !.thr[t] = Idle]
            ELSE [env EXCEPT !.thr[t].pc = "overriding"]
  /\ UNCHANGED <<hvars, stream, uv, iq, dl, sync, rd, lb, rq>>

\* PutInt: pIntMap[key] = std::make_pair( value, false ); return true
PutIntWrites(t) ==
  /\ env.thr[t].pc \in {"absent", "overriding"}
  /\ env' = [EnvCall([env EXCEPT !.pIntMap[env.thr[t].key] =
                        Entry(env.thr[t].value, FALSE)],
                     "PutInt", env.thr[t].key, env.thr[t].value, TRUE)
               EXCEPT !.thr[t] = Idle]
  /\ UNCHANGED <<hvars, stream, uv, iq, dl, sync, rd, lb, rq>>

\* ImportInt: its one access to the map is the assignment at its end
ImportIntRuns(t) ==
  /\ env.thr[t].pc = "idle"
  /\ \E key \in Keys, str \in Strings : env' = EnvImportInt(env, key, str)
  /\ UNCHANGED <<hvars, stream, uv, iq, dl, sync, rd, lb, rq>>

RaceNext ==
  \E t \in Threads :
    PutIntFinds(t) \/ PutIntTests(t) \/ PutIntWrites(t) \/ ImportIntRuns(t)

RaceSpec == RaceInit /\ [][RaceNext]_vars

\* C40: Env operations on one key are atomic with respect to each other:
\* with PutInt running concurrently with ImportInt on the same key, an
\* entry imported from the shell is never replaced by an in-process value
C40_ImportedStaysImported ==
  [][\A k \in Keys :
       env.pIntMap[k].present /\ env.pIntMap[k].imported
         => env'.pIntMap[k].imported]_vars

====
